---- MODULE Spec2Model ----
(***************************************************************************)
(* Photo consolidation pipeline (scripts/media/photo_consolidator):        *)
(* FileCopier, MediaScanner, DuplicateDetector and PhotoConsolidator over  *)
(* a small file system.                                                    *)
(*                                                                         *)
(* A path is the sequence of its components, a file system is a function   *)
(* from the paths of the existing files to their contents.  A content is a *)
(* string; its SHA-256 digest and its size are read from tables.           *)
(***************************************************************************)
EXTENDS Integers, Sequences, FiniteSets, TLC

VARIABLES
    fs,          \* existing files: path -> content
    dirs,        \* existing directories of the staging tree
    srcManifest, \* <label>_source_manifest.json: label -> entries, or absent
    cpManifest,  \* <label>_copied_manifest.json: label -> entries, or absent
    combined,    \* copied_files_combined.json: <<entries>> or <<>> (absent)
    groups,      \* duplicates/groups/group_NNNNN.txt: number -> lines
    backupCfg,   \* safety.backup_before_removal
    staged0,     \* digests of the staged files when staging was last filled
    cs,          \* the running consolidation (locals of consolidate_files)
    copyRes,     \* result of the last copy_all_drives
    consRes,     \* report of the last completed consolidate_files
    faults,      \* I/O faults injected so far
    runs,        \* stage runs started so far
    config,      \* photo_consolidation.quality and safety.max_duplicate_percentage
    analysis,    \* result of the last analyze_duplicates
    combinedMeta, \* metadata of copied_files_combined.json, or absent
    scanRes,     \* result of the last scan_source_drives
    combineErr,  \* the last create_combined_manifest raised FileNotFoundError
    pool,        \* the thread pool of a running create_copied_manifest
    stages       \* infrastructure.storage and the directories of the constructed stages

vars == <<fs, dirs, srcManifest, cpManifest, combined, groups, backupCfg,
          staged0, cs, copyRes, consRes, faults, runs, config, analysis,
          combinedMeta, scanRes, combineErr, pool, stages>>

-----------------------------------------------------------------------------
(* Bounds of the model *)

MaxFiles == 3
MaxFaults == 1
MaxRuns == 2

-----------------------------------------------------------------------------
(* Contents, digests, sizes *)

RealContents == {"A", "B"}

MB == 1024 * 1024

\* what a silently corrupted copy of c holds: other bytes, same length
Corrupt(c) == IF c \in {"A", "A~"} THEN "A~" ELSE IF c \in {"B", "B~"} THEN "B~" ELSE c

\* what an aborted copy leaves behind
Partial == "part"

SizeOf(c) ==
    CASE c \in {"A", "A~"} -> 4
      [] c \in {"B", "B~"} -> 7
      [] c = "S" -> 1 * MB
      [] c = "M" -> 15 * MB
      [] c = "L" -> 60 * MB
      [] OTHER -> 1

Digest(c) ==
    CASE c = "A" -> "sha:A"
      [] c = "A~" -> "sha:A~"
      [] c = "B" -> "sha:B"
      [] c = "B~" -> "sha:B~"
      [] c = "S" -> "sha:S"
      [] c = "M" -> "sha:M"
      [] c = "L" -> "sha:L"
      [] OTHER -> "sha:part"

\* calculate_sha256: the digest of the file's bytes, "" when it cannot be read
calculate_sha256(f, p, readable) ==
    IF p \in DOMAIN f /\ readable THEN Digest(f[p]) ELSE ""

\* a size probe that always fails
SizeUnknown(f, p) == 0

\* get_file_size: st_size, 0 on error
get_file_size(f, p) == IF p \in DOMAIN f THEN SizeOf(f[p]) ELSE 0

-----------------------------------------------------------------------------
(* Paths *)

DataRoot == <<"data">>
IncomingDir == DataRoot \o <<"incoming">>
FinalDir == DataRoot \o <<"final">>
BackupDir == DataRoot \o <<"backup", "consolidation">>

Labels == {"photos", "backup"}
DriveOrder == <<"photos", "backup">>
DrivePath(d) == <<"mnt", d>>

\* a in b, for the words the code searches and the names of the model
Contains(word, name) ==
    \/ word = name
    \/ word = "KEEP" /\ name = "KEEP_a.jpg"
    \/ word = "REMOVE" /\ name = "REMOVE_a.jpg"
    \/ word = "photos" /\ name = "photos"
    \/ word = "backup" /\ name = "backup"
    \/ word = "old" /\ name = "incoming_old"

\* str(p).startswith(str(q)): the prefix test on the joined strings; of the
\* names of the model only "incoming_old" starts with another, "incoming"
StrStartsWith(p, q) ==
    /\ Len(p) >= Len(q)
    /\ \A i \in 1..(Len(q) - 1) : p[i] = q[i]
    /\ Len(q) > 0 => \/ p[Len(q)] = q[Len(q)]
                     \/ q[Len(q)] = "incoming" /\ p[Len(q)] = "incoming_old"

\* whether Path.relative_to(base) succeeds (it raises ValueError otherwise)
IsRelativeTo(p, base) ==
    /\ Len(p) >= Len(base)
    /\ \A i \in 1..Len(base) : p[i] = base[i]

RelativeTo(p, base) == SubSeq(p, Len(base) + 1, Len(p))
FileName(p) == p[Len(p)]
Parent(p) == SubSeq(p, 1, Len(p) - 1)
ParentName(p) == IF Len(p) >= 2 THEN p[Len(p) - 1] ELSE ""

Under(f, dir) == {p \in DOMAIN f : IsRelativeTo(p, dir)}
Restrict(f, S) == [p \in S |-> f[p]]
Remove(f, p) == Restrict(f, DOMAIN f \ {p})
Put(f, p, c) == [q \in DOMAIN f \cup {p} |-> IF q = p THEN c ELSE f[q]]

Range(s) == {s[i] : i \in 1..Len(s)}

-----------------------------------------------------------------------------
(* utils.safe_copy_file *)

\* What the environment does to one copy: shutil.copy2 completes, raises
\* midway, or completes with other bytes; each of the two digest reads of the
\* verification may fail.
CopyFaults ==
    {x \in [copy : {"ok", "raise", "corrupt"},
            src_readable : BOOLEAN, dst_readable : BOOLEAN] :
        x.copy = "raise" => (x.src_readable /\ x.dst_readable)}

NoFault == [copy |-> "ok", src_readable |-> TRUE, dst_readable |-> TRUE]

FaultCost(x) == IF x = NoFault THEN 0 ELSE 1

\* the comparison that decides the verification of safe_copy_file
HashesDiffer(source_hash, dest_hash) == source_hash # dest_hash

\* a copy that takes the source away once the destination is accepted
safe_move_file(f, source, destination, verify, x) ==
    IF source \notin DOMAIN f \/ source = destination THEN [ok |-> FALSE, fs |-> f]
    ELSE IF x.copy = "raise" THEN [ok |-> FALSE, fs |-> Put(f, destination, Partial)]
    ELSE LET f2 == Put(f, destination,
                       IF x.copy = "corrupt" THEN Corrupt(f[source]) ELSE f[source])
             source_hash == IF x.src_readable THEN Digest(f2[source]) ELSE ""
             dest_hash == IF x.dst_readable THEN Digest(f2[destination]) ELSE ""
         IN  IF verify /\ source_hash # dest_hash
             THEN [ok |-> FALSE, fs |-> f2]
             ELSE [ok |-> TRUE, fs |-> Remove(f2, source)]

\* a copy that refuses a destination that exists
CopyOnlyNew(f, source, destination, verify, x) ==
    IF source \notin DOMAIN f \/ destination \in DOMAIN f
    THEN [ok |-> FALSE, fs |-> f]
    ELSE [ok |-> TRUE, fs |-> Put(f, destination, f[source])]

\* safe_copy_file(source, destination, verify): [ok, fs]
safe_copy_file(f, source, destination, verify, x) ==
    IF source \notin DOMAIN f \/ source = destination
    THEN [ok |-> FALSE, fs |-> f]
    ELSE IF x.copy = "raise"
    THEN [ok |-> FALSE, fs |-> Put(f, destination, Partial)]
    ELSE LET f2 == Put(f, destination,
                       IF x.copy = "corrupt" THEN Corrupt(f[source]) ELSE f[source])
             source_hash == calculate_sha256(f2, source, x.src_readable)
             dest_hash == calculate_sha256(f2, destination, x.dst_readable)
         IN  IF verify /\ HashesDiffer(source_hash, dest_hash)
             THEN [ok |-> FALSE, fs |-> f2]
             ELSE [ok |-> TRUE, fs |-> f2]

\* a copy whose two digests were computed and are equal
GenuinelyVerified(f, source, destination, x) ==
    /\ source \in DOMAIN f
    /\ destination \in DOMAIN f
    /\ x.src_readable /\ x.dst_readable
    /\ Digest(f[source]) = Digest(f[destination])

-----------------------------------------------------------------------------
(* DuplicateDetector *)

\* a manifest entry: path, size, hash
Entry(p, size, hash) == [path |-> p, size |-> size, hash |-> hash]

\* _create_file_info: the extension is the lower-cased suffix
ExtensionOf(p) ==
    CASE FileName(p) = "b.png" -> "png"
      [] FileName(p) = "c.cr2" -> "cr2"
      [] OTHER -> "jpg"

\* dict.get(key, default)
Get(d, key, default) == IF key \in DOMAIN d THEN d[key] ELSE default

\* an empty dict
NoKeys == [k \in {} |-> 0]

\* the configuration the defaults of config.py give: no quality section, no
\* safety section
DefaultConfig ==
    [format_scores |-> NoKeys, folder_bonuses |-> NoKeys, size_thresholds |-> NoKeys,
     safety |-> NoKeys]

AnyIn(keywords, name) == \E k \in keywords : Contains(k, name)

\* the size bonus: if size > 10 MB ... elif size > 50 MB ...
SizeBonus(size) == IF size > 10 * MB THEN 5 ELSE IF size > 50 * MB THEN 10 ELSE 0

\* a score returned as computed
Unclamped(score) == score

\* max(0, min(100, score))
Clamp(score) == IF score > 100 THEN 100 ELSE IF score < 0 THEN 0 ELSE score

\* _calculate_quality_score
QualityScore(e) ==
    LET ext == ExtensionOf(e.path)
        format_scores == config.format_scores
        folder_bonuses == config.folder_bonuses
        size_thresholds == config.size_thresholds
        base ==
            CASE ext \in {"cr2", "nef", "arw", "dng", "raf", "orf", "rw2", "pef", "srw", "x3f"} ->
                    Get(format_scores, "raw_files", 90)
              [] ext \in {"jpg", "jpeg"} ->
                    IF e.size > Get(size_thresholds, "photo_large_mb", 5) * MB
                    THEN Get(format_scores, "high_res_jpg", 75)
                    ELSE Get(format_scores, "standard_jpg", 60)
              [] ext = "png" -> Get(format_scores, "png", 65)
              [] ext \in {"heic", "heif"} -> Get(format_scores, "heic", 70)
              [] ext \in {"mp4", "mov", "avi", "mkv"} ->
                    IF e.size > Get(size_thresholds, "video_large_mb", 100) * MB
                    THEN Get(format_scores, "videos_hd", 70)
                    ELSE Get(format_scores, "videos_sd", 50)
              [] OTHER -> 50
        folder_name == ParentName(e.path)
        parent_folder == IF Len(e.path) >= 3 THEN e.path[Len(e.path) - 2] ELSE ""
        backup_keywords == {"backup", "old", "copy", "duplicate", "archive"}
        folder ==
            IF AnyIn({"2020", "2021", "2022", "2023", "2024"}, folder_name)
            THEN Get(folder_bonuses, "organized", 10)
            ELSE IF AnyIn({"photos", "pictures", "vacation", "wedding", "family", "events"}, folder_name)
            THEN Get(folder_bonuses, "organized", 10)
            ELSE IF AnyIn({"2020", "2021", "2022", "2023", "2024", "holiday", "trip"}, folder_name)
            THEN Get(folder_bonuses, "meaningful", 5)
            ELSE IF AnyIn(backup_keywords, folder_name)
            THEN Get(folder_bonuses, "backup", -10)
            ELSE IF AnyIn({"downloads", "temp", "tmp", "cache", "recycle"}, folder_name)
            THEN Get(folder_bonuses, "junk", -15)
            ELSE 0
        parent == IF AnyIn(backup_keywords, parent_folder)
                  THEN Get(folder_bonuses, "backup", -5) ELSE 0
    IN  Clamp(base + folder + parent + SizeBonus(e.size))

\* list.sort(key=quality_score, reverse=True): stable, highest first
RECURSIVE InsertByScore(_, _)
InsertByScore(sorted, e) ==
    IF sorted = <<>> THEN <<e>>
    ELSE IF QualityScore(Head(sorted)) >= QualityScore(e)
         THEN <<Head(sorted)>> \o InsertByScore(Tail(sorted), e)
         ELSE <<e>> \o sorted

\* the members left in manifest order
Unsorted(s) == s

RECURSIVE SortByScore(_)
SortByScore(s) ==
    IF s = <<>> THEN <<>>
    ELSE InsertByScore(SortByScore(SubSeq(s, 1, Len(s) - 1)), s[Len(s)])

\* the keys of hash_groups in insertion order: empty hashes are skipped
RECURSIVE HashOrder(_, _)
HashOrder(files, seen) ==
    IF files = <<>> THEN <<>>
    ELSE LET h == Head(files).hash
         IN  IF h = "" \/ h \in seen THEN HashOrder(Tail(files), seen)
             ELSE <<h>> \o HashOrder(Tail(files), seen \cup {h})

WithHash(files, h) == SelectSeq(files, LAMBDA e : e.hash = h)

\* the DuplicateGroup of every hash with more than one file, members ranked
RECURSIVE GroupsOf(_, _)
GroupsOf(files, hashes) ==
    IF hashes = <<>> THEN <<>>
    ELSE LET members == WithHash(files, Head(hashes))
         IN  (IF Len(members) > 1 THEN <<SortByScore(members)>> ELSE <<>>)
             \o GroupsOf(files, Tail(hashes))

DuplicateGroups(files) == GroupsOf(files, HashOrder(files, {}))

RECURSIVE SumSizes(_)
SumSizes(members) ==
    IF members = <<>> THEN 0 ELSE Head(members).size + SumSizes(Tail(members))

\* DuplicateGroup(hash, files, best_file=files[0]) after __post_init__
DuplicateGroup(members) ==
    [hash |-> members[1].hash,
     files |-> members,
     best_file |-> members[1],
     total_size |-> SumSizes(members),
     space_savings |-> SumSizes(members) - members[1].size]

\* a unique list that also takes the files without a hash
UniqueOrUnhashed(files) ==
    SelectSeq(files, LAMBDA e : Len(WithHash(files, e.hash)) = 1 \/ e.hash = "")

\* unique_files: the files whose hash group has one member
UniqueInfos(files) ==
    SelectSeq(files, LAMBDA e : e.hash # "" /\ Len(WithHash(files, e.hash)) = 1)

RECURSIVE SumField(_, _)
SumField(dgs, field) ==
    IF dgs = <<>> THEN 0
    ELSE (IF field = "files" THEN Len(Head(dgs).files) ELSE Head(dgs)[field])
         + SumField(Tail(dgs), field)

\* analyze_duplicates: the results of _generate_reports, the warning of the
\* safety check, and the groups and unique files they were computed from.
\* duplicate_percentage is the quotient num / den
AnalysisOf(files) ==
    LET dg == DuplicateGroups(files)
        duplicate_groups == [i \in 1..Len(dg) |-> DuplicateGroup(dg[i])]
        unique_files == UniqueInfos(files)
        total_files == Len(files)
        total_duplicates == SumField(duplicate_groups, "files")
        max_percentage == Get(config.safety, "max_duplicate_percentage", 80)
    IN  [valid |-> TRUE,
         total_files |-> total_files,
         unique_files |-> Len(unique_files),
         duplicate_groups |-> Len(duplicate_groups),
         total_duplicates |-> total_duplicates,
         space_savings_bytes |-> SumField(duplicate_groups, "space_savings"),
         duplicate_percentage |-> [num |-> total_duplicates * 100, den |-> total_files],
         warned |-> Len(duplicate_groups) * 100 > max_percentage * total_files,
         scores |-> [i \in DOMAIN files |-> QualityScore(files[i])],
         groups |-> duplicate_groups,
         unique |-> unique_files]

NoAnalysis ==
    [valid |-> FALSE, total_files |-> 0, unique_files |-> 0, duplicate_groups |-> 0,
     total_duplicates |-> 0, space_savings_bytes |-> 0,
     duplicate_percentage |-> [num |-> 0, den |-> 1], warned |-> FALSE,
     scores |-> <<>>, groups |-> <<>>, unique |-> <<>>]

\* One line of a group report: its kind, the action word of an entry line and
\* the path of a "Full:" line.
Line(kind, action, p) == [kind |-> kind, action |-> action, path |-> p]

\* the lines _write_group_report writes for one ranked member
EntryLines(i, e) ==
    << Line("entry", IF i = 1 THEN "KEEP" ELSE "REMOVE", <<>>),
       Line("full", "", e.path),
       Line("size", "", <<>>),
       Line("format", "", <<>>),
       Line("folder", "", <<ParentName(e.path)>>),
       Line("blank", "", <<>>) >>

RECURSIVE AllEntryLines(_, _)
AllEntryLines(members, i) ==
    IF i > Len(members) THEN <<>>
    ELSE EntryLines(i, members[i]) \o AllEntryLines(members, i + 1)

\* _write_group_report
GroupReport(members) ==
    << Line("title", "", <<>>), Line("hash", "", <<>>), Line("files", "", <<>>),
       Line("total", "", <<>>), Line("savings", "", <<>>), Line("ranked", "", <<>>),
       Line("blank", "", <<>>) >>
    \o AllEntryLines(members, 1)
    \o << Line("recommend", "", <<>>), Line("saved", "", <<>>) >>

-----------------------------------------------------------------------------
(* PhotoConsolidator: parsing a group report *)

\* word in line, for the words _process_single_group searches
LineHas(line, word) ==
    CASE word = "Full:" -> line.kind = "full"
      [] OTHER ->
            \/ line.kind = "entry" /\ line.action = word
            \/ line.kind = "ranked"
            \/ line.kind \in {"full", "folder"}
               /\ \E i \in 1..Len(line.path) : Contains(word, line.path[i])

\* a test that takes every "Full:" line for the KEEP entry
IsFullLine(line) == LineHas(line, "Full:")

\* the two tests of the parsing loop, on one stripped line
IsKeepLine(line) == LineHas(line, "KEEP") /\ LineHas(line, "Full:")
IsRemoveLine(line) == LineHas(line, "REMOVE") /\ LineHas(line, "Full:")

\* the loop over the lines: best_file (<<>> is None) and files_to_remove
RECURSIVE ParseLines(_, _)
ParseLines(lines, acc) ==
    IF lines = <<>> THEN acc
    ELSE LET line == Head(lines)
         IN  ParseLines(Tail(lines),
                 IF IsKeepLine(line)
                 THEN [acc EXCEPT !.best_file = line.path]
                 ELSE IF IsRemoveLine(line)
                 THEN [acc EXCEPT !.files_to_remove = Append(@, line.path)]
                 ELSE acc)

ParseGroupFile(lines) == ParseLines(lines, [best_file |-> <<>>, files_to_remove |-> <<>>])

\* group_file.stem
GroupName(g) ==
    CASE g = 1 -> "group_00001"
      [] g = 2 -> "group_00002"
      [] g = 3 -> "group_00003"
      [] OTHER -> "group_0000N"

\* the safety check: the path's string starts with the staging root's string
InIncoming(p) == StrStartsWith(p, IncomingDir)

\* a destination that keeps the drive label
DestPathWithLabel(p) == FinalDir \o RelativeTo(p, IncomingDir)

\* the final destination: the leading drive-label component is dropped
DestPath(p) ==
    LET rel_path == RelativeTo(p, IncomingDir)
    IN  FinalDir \o (IF Len(rel_path) > 1 THEN Tail(rel_path) ELSE rel_path)

\* a run that finds no unique file
NoUniqueFiles(files) == <<>>

\* the unique_files of _process_unique_files: hashes held by exactly one entry
UniqueFiles(files) ==
    LET hashes == HashOrder(files, {})
        one(h) == Len(WithHash(files, h)) = 1
        kept == SelectSeq(hashes, one)
    IN  [i \in 1..Len(kept) |-> WithHash(files, kept[i])[1]]

\* cleanup_empty_directories: bottom-up, a directory goes when it holds no
\* file and every directory below it went
CleanupEmptyDirectories(ds, f) == {d \in ds : Under(f, d) # {}}

\* a backup that does not look at the run's mode
BackupAlways(cfg, dry_run) == cfg

\* a removal that never makes a backup
BackupNever(cfg, dry_run) == FALSE

\* the backup loop runs only in a live run with backup_before_removal
BackupEnabled(cfg, dry_run) == cfg /\ ~dry_run

-----------------------------------------------------------------------------
(* PhotoConsolidator: one run, a step per file operation *)

NoStats ==
    [total_processed |-> 0, files_kept |-> 0, files_removed |-> 0, space_saved |-> 0,
     unique_files_copied |-> 0, errors |-> <<>>]

NoCopy == [source |-> <<>>, computed |-> <<>>, dest |-> <<>>, ok |-> FALSE, verified |-> FALSE]

Idle ==
    [pc |-> "idle", dry_run |-> FALSE, todo |-> {}, g |-> 0, files_to_remove |-> <<>>,
     i |-> 0, space_saved_group |-> 0, u |-> 0, stats |-> NoStats, last |-> NoCopy,
     fs0 |-> <<>>, backups |-> {}]

NoReport == [valid |-> FALSE, dry_run |-> FALSE, stats |-> NoStats, final_count |-> 0, success |-> FALSE]

Error(kind, p) == [kind |-> kind, path |-> p]

AddError(st, kind, p) == [st EXCEPT !.errors = Append(@, Error(kind, p))]

\* consolidate_files up to the loop over the group files
StartConsolidate(dry_run) ==
    /\ cs.pc = "idle"
    /\ runs < MaxRuns
    /\ IncomingDir \in dirs
    /\ runs' = runs + 1
    /\ cs' = [Idle EXCEPT !.pc = "groups", !.dry_run = dry_run, !.todo = DOMAIN groups,
                          !.fs0 = fs]
    /\ UNCHANGED <<fs, dirs, srcManifest, cpManifest, combined, groups, backupCfg, config, analysis, combinedMeta, scanRes, combineErr,
                   staged0, copyRes, consRes, faults, pool, stages>>

\* the group is done: back to the loop over the group files
GroupDone(c, g, st) ==
    [c EXCEPT !.pc = "groups", !.todo = @ \ {g}, !.g = 0, !.files_to_remove = <<>>,
              !.i = 0, !.space_saved_group = 0, !.stats = st, !.backups = {}]

\* a handler that leaves the loop over the group files
LoopLeft(c, g, st) == [GroupDone(c, g, st) EXCEPT !.todo = {}]

\* except Exception in the loop over the group files: the loop goes on
GroupFailed(c, g, st) == GroupDone(c, g, st)

\* _process_single_group raises while it opens or reads the group file
ProcessGroupRaises(g) ==
    /\ cs.pc = "groups"
    /\ g \in cs.todo
    /\ faults + 1 <= MaxFaults
    /\ faults' = faults + 1
    /\ cs' = [GroupFailed(cs, g, AddError(cs.stats, "group", <<GroupName(g)>>))
                 EXCEPT !.last = NoCopy]
    /\ UNCHANGED <<fs, dirs, srcManifest, cpManifest, combined, groups, backupCfg, config, analysis,
                   combinedMeta, scanRes, combineErr, staged0, copyRes, consRes, runs, pool, stages>>

\* _process_single_group up to the removal of the duplicates
ProcessSingleGroup(g, x) ==
    /\ cs.pc = "groups"
    /\ g \in cs.todo
    /\ faults + FaultCost(x) <= MaxFaults
    /\ LET parsed == ParseGroupFile(groups[g])
           best_path == parsed.best_file
           live == ~cs.dry_run
       IN  IF \/ best_path = <<>>
              \/ best_path \notin DOMAIN fs
              \/ ~InIncoming(best_path)
           THEN /\ x = NoFault
                /\ cs' = [GroupDone(cs, g, cs.stats) EXCEPT !.last = NoCopy]
                /\ UNCHANGED <<fs, faults>>
           ELSE IF ~IsRelativeTo(best_path, IncomingDir)
           THEN /\ x = NoFault
                /\ cs' = [GroupFailed(cs, g, AddError(cs.stats, "group", best_path))
                             EXCEPT !.last = NoCopy]
                /\ UNCHANGED <<fs, faults>>
           ELSE LET dest_path == DestPath(best_path)
                    r == IF live THEN safe_copy_file(fs, best_path, dest_path, TRUE, x)
                         ELSE [ok |-> TRUE, fs |-> fs]
                    copy == IF live
                            THEN [source |-> best_path, computed |-> dest_path,
                                  dest |-> dest_path, ok |-> r.ok,
                                  verified |-> r.ok /\ GenuinelyVerified(r.fs, best_path, dest_path, x)]
                            ELSE NoCopy
                    kept == IF live
                            THEN [cs.stats EXCEPT !.files_kept = @ + 1]
                            ELSE cs.stats
                IN  /\ live \/ x = NoFault
                    /\ fs' = r.fs
                    /\ faults' = faults + FaultCost(x)
                    /\ cs' = IF ~r.ok
                             THEN [GroupDone(cs, g, AddError(cs.stats, "copy best", best_path))
                                      EXCEPT !.last = copy]
                             ELSE IF parsed.files_to_remove = <<>>
                             THEN [GroupDone(cs, g, [kept EXCEPT !.total_processed = @ + 1])
                                      EXCEPT !.last = copy]
                             ELSE [cs EXCEPT
                                      !.pc = IF BackupEnabled(backupCfg, cs.dry_run)
                                             THEN "backup" ELSE "remove",
                                      !.g = g, !.files_to_remove = parsed.files_to_remove,
                                      !.i = 1, !.space_saved_group = 0, !.stats = kept,
                                      !.last = copy]
    /\ UNCHANGED <<dirs, srcManifest, cpManifest, combined, groups, backupCfg, config, analysis, combinedMeta, scanRes, combineErr,
                   staged0, copyRes, consRes, runs, pool, stages>>

\* after the last file of a loop over files_to_remove
LastOf(c) == c.i = Len(c.files_to_remove)

\* _handle_duplicate_removal, the backup loop: one file
BackupStep(x) ==
    /\ cs.pc = "backup"
    /\ faults + FaultCost(x) <= MaxFaults
    /\ LET file_path == cs.files_to_remove[cs.i]
           backup_path == BackupDir \o <<GroupName(cs.g), FileName(file_path)>>
       IN  IF file_path \in DOMAIN fs
           THEN /\ fs' = safe_copy_file(fs, file_path, backup_path, TRUE, x).fs
                /\ faults' = faults + FaultCost(x)
           ELSE /\ x = NoFault
                /\ UNCHANGED <<fs, faults>>
    /\ LET file_path == cs.files_to_remove[cs.i]
           tried == IF file_path \in DOMAIN fs THEN cs.backups \cup {file_path}
                    ELSE cs.backups
       IN  cs' = IF LastOf(cs) THEN [cs EXCEPT !.pc = "remove", !.i = 1, !.backups = tried]
                 ELSE [cs EXCEPT !.i = @ + 1, !.backups = tried]
    /\ UNCHANGED <<dirs, srcManifest, cpManifest, combined, groups, backupCfg, config, analysis, combinedMeta, scanRes, combineErr,
                   staged0, copyRes, consRes, runs, pool, stages>>

\* the loop over files_to_remove is over: the group's totals are added
RemovalDone(c, st, saved) ==
    IF LastOf(c)
    THEN GroupDone(c, c.g, [st EXCEPT !.space_saved = @ + saved,
                                      !.total_processed = @ + Len(c.files_to_remove) + 1])
    ELSE [c EXCEPT !.i = @ + 1, !.stats = st, !.space_saved_group = saved]

\* _handle_duplicate_removal, the removal loop: one file
RemoveStep(unlink_ok) ==
    /\ cs.pc = "remove"
    /\ faults + (IF unlink_ok THEN 0 ELSE 1) <= MaxFaults
    /\ LET file_path == cs.files_to_remove[cs.i]
           file_size == get_file_size(fs, file_path)
           counted == [cs.stats EXCEPT !.files_removed = @ + 1]
       IN  IF ~InIncoming(file_path) \/ file_path \notin DOMAIN fs
           THEN /\ unlink_ok
                /\ cs' = RemovalDone(cs, cs.stats, cs.space_saved_group)
                /\ UNCHANGED <<fs, faults>>
           ELSE IF cs.dry_run
           THEN /\ unlink_ok
                /\ cs' = RemovalDone(cs, counted, cs.space_saved_group + file_size)
                /\ UNCHANGED <<fs, faults>>
           ELSE IF ~unlink_ok
           THEN /\ cs' = RemovalDone(cs, AddError(cs.stats, "remove", file_path),
                                     cs.space_saved_group)
                /\ faults' = faults + 1
                /\ UNCHANGED fs
           ELSE /\ fs' = Remove(fs, file_path)
                /\ cs' = IF IsRelativeTo(file_path, IncomingDir)
                         THEN RemovalDone(cs, counted, cs.space_saved_group + file_size)
                         ELSE RemovalDone(cs, AddError(cs.stats, "remove", file_path),
                                          cs.space_saved_group)
                /\ UNCHANGED faults
    /\ UNCHANGED <<dirs, srcManifest, cpManifest, combined, groups, backupCfg, config, analysis, combinedMeta, scanRes, combineErr,
                   staged0, copyRes, consRes, runs, pool, stages>>

\* _process_unique_files: one file of the loop over unique_files
ProcessUniqueFile(x) ==
    /\ cs.pc = "groups"
    /\ cs.todo = {}
    /\ cs.u < Len(UniqueFiles(combined))
    /\ faults + FaultCost(x) <= MaxFaults
    /\ LET source_path == UniqueFiles(combined)[cs.u + 1].path
           next == [cs EXCEPT !.u = @ + 1, !.last = NoCopy]
       IN  IF ~InIncoming(source_path) \/ source_path \notin DOMAIN fs
           THEN /\ x = NoFault
                /\ cs' = next
                /\ UNCHANGED <<fs, faults>>
           ELSE IF ~IsRelativeTo(source_path, IncomingDir)
           THEN /\ x = NoFault
                /\ cs' = [next EXCEPT !.stats = AddError(@, "unique", source_path)]
                /\ UNCHANGED <<fs, faults>>
           ELSE IF cs.dry_run
           THEN /\ x = NoFault
                /\ cs' = next
                /\ UNCHANGED <<fs, faults>>
           ELSE LET dest_path == DestPath(source_path)
                    r == safe_copy_file(fs, source_path, dest_path, TRUE, x)
                    copy == [source |-> source_path, computed |-> dest_path,
                             dest |-> dest_path, ok |-> r.ok,
                             verified |-> r.ok /\ GenuinelyVerified(r.fs, source_path, dest_path, x)]
                IN  /\ fs' = r.fs
                    /\ faults' = faults + FaultCost(x)
                    /\ cs' = [next EXCEPT
                                !.last = copy,
                                !.stats = IF r.ok
                                          THEN [@ EXCEPT !.unique_files_copied = @ + 1]
                                          ELSE AddError(@, "copy unique", source_path)]
    /\ UNCHANGED <<dirs, srcManifest, cpManifest, combined, groups, backupCfg, config, analysis, combinedMeta, scanRes, combineErr,
                   staged0, copyRes, consRes, runs, pool, stages>>

\* the end of _process_unique_files and _generate_final_report
FinalReport ==
    /\ cs.pc = "groups"
    /\ cs.todo = {}
    /\ cs.u = Len(UniqueFiles(combined))
    /\ LET n == Len(UniqueFiles(combined))
           st == [cs.stats EXCEPT !.files_kept =
                      @ + (IF cs.dry_run THEN n ELSE cs.stats.unique_files_copied)]
       IN  consRes' = [valid |-> TRUE, dry_run |-> cs.dry_run, stats |-> st,
                       final_count |-> IF cs.dry_run THEN 0
                                       ELSE Cardinality(Under(fs, FinalDir)),
                       success |-> st.errors = <<>>]
    /\ dirs' = IF cs.dry_run THEN dirs ELSE CleanupEmptyDirectories(dirs, fs)
    /\ cs' = Idle
    /\ UNCHANGED <<fs, srcManifest, cpManifest, combined, groups, backupCfg, config, analysis, combinedMeta, scanRes, combineErr,
                   staged0, copyRes, faults, runs, pool, stages>>

\* the process is killed between two file operations
Interrupt ==
    /\ cs.pc # "idle"
    /\ cs' = Idle
    /\ UNCHANGED <<fs, dirs, srcManifest, cpManifest, combined, groups, backupCfg, config, analysis, combinedMeta, scanRes, combineErr,
                   staged0, copyRes, consRes, faults, runs, pool, stages>>

Consolidate ==
    \/ \E dry_run \in BOOLEAN : StartConsolidate(dry_run)
    \/ \E g \in DOMAIN groups, x \in CopyFaults : ProcessSingleGroup(g, x)
    \/ \E g \in DOMAIN groups : ProcessGroupRaises(g)
    \/ \E x \in CopyFaults : BackupStep(x)
    \/ \E unlink_ok \in BOOLEAN : RemoveStep(unlink_ok)
    \/ \E x \in CopyFaults : ProcessUniqueFile(x)
    \/ FinalReport
    \/ Interrupt

-----------------------------------------------------------------------------
(* The state a consolidation starts from: files under the data root, the    *)
(* combined manifest of them and the group reports of its analysis.  The    *)
(* manifest lists staged files and, when it was made over the data root by  *)
(* PhotoScanner.create_copied_manifest(source_dir), files of a directory    *)
(* beside incoming/ as well.                                                *)

\* the paths a manifest lists, in the order the manifest lists them
SlotOrder ==
    << IncomingDir \o <<"photos", "a.jpg">>,
       IncomingDir \o <<"photos", "REMOVE_a.jpg">>,
       IncomingDir \o <<"backup", "a.jpg">>,
       IncomingDir \o <<"backup", "KEEP_a.jpg">>,
       \* a directory beside the staging root whose name begins with "incoming"
       DataRoot \o <<"incoming_old", "photos", "REMOVE_a.jpg">> >>

StagedSlots == {p \in Range(SlotOrder) : IsRelativeTo(p, IncomingDir)}

\* the manifest of the files of f among the slots, hashed
ManifestOf(f) ==
    LET paths == SelectSeq(SlotOrder, LAMBDA p : p \in DOMAIN f)
    IN  [i \in 1..Len(paths) |-> Entry(paths[i], SizeOf(f[paths[i]]), Digest(f[paths[i]]))]

\* _generate_reports: group_0000i.txt for the i-th duplicate group
ReportsOf(files) ==
    LET dg == DuplicateGroups(files)
    IN  [i \in 1..Len(dg) |-> GroupReport(dg[i])]

\* the digests of the files under incoming/
StagedDigests(f) == {Digest(f[p]) : p \in Under(f, IncomingDir)}

StagedDirs(f) == {IncomingDir} \cup {Parent(p) : p \in Under(f, IncomingDir)}

\* Config.get_data_root
get_data_root(storage) == Get(storage, "data_root", <<"data">>)

\* Config.get_consolidation_root
get_consolidation_root(storage) ==
    LET root == Get(storage, "consolidation_root", <<>>)
    IN  IF root # <<>> THEN root ELSE get_data_root(storage) \o <<"photo-consolidation">>

\* a stage that was not constructed yet
NoStage == [made |-> FALSE, incoming_dir |-> <<>>, manifests_dir |-> <<>>]

\* the stages constructed from a configuration, by the __init__ of
\* FileCopier, MediaScanner, DuplicateDetector and PhotoConsolidator
StagesOf(storage) ==
    [storage |-> storage,
     copier |->
        [made |-> TRUE,
         incoming_dir |-> get_consolidation_root(storage) \o <<"incoming">>,
         manifests_dir |-> get_consolidation_root(storage) \o <<"manifests">>],
     scanner |->
        [made |-> TRUE,
         incoming_dir |-> <<>>,
         manifests_dir |-> get_consolidation_root(storage) \o <<"manifests">>],
     detector |->
        [made |-> TRUE,
         incoming_dir |-> <<>>,
         manifests_dir |-> get_data_root(storage) \o <<"manifests">>],
     consolidator |->
        [made |-> TRUE,
         incoming_dir |-> get_data_root(storage) \o <<"incoming">>,
         manifests_dir |-> get_data_root(storage) \o <<"manifests">>]]

\* the configuration of the runs modelled here: both roots are /data
SharedStages == StagesOf([k \in {"data_root", "consolidation_root"} |-> DataRoot])

\* no create_copied_manifest is running
NoPool == [pc |-> "idle", futures |-> <<>>, manifest_entries |-> <<>>, total_size |-> 0]

\* copied_files_combined.json does not exist
NoMeta == [present |-> FALSE, total_files |-> 0, total_size |-> 0]

\* the metadata of a combined manifest that lists files
MetaOf(files) ==
    IF files = <<>> THEN NoMeta
    ELSE [present |-> TRUE, total_files |-> Len(files), total_size |-> SumSizes(files)]

\* no scan_source_drives has returned yet
NoScan ==
    [drives_scanned |-> 0, errors |-> 0, total_files |-> 0, total_size |-> 0,
     inaccessible |-> {}]

Init ==
    /\ \E S \in SUBSET Range(SlotOrder) :
          /\ Cardinality(S) <= MaxFiles
          /\ fs \in [S -> RealContents]
    /\ dirs = StagedDirs(fs)
    /\ srcManifest = [d \in Labels |-> [present |-> FALSE, files |-> <<>>]]
    /\ cpManifest = [d \in Labels |->
                        SelectSeq(ManifestOf(fs),
                                  LAMBDA e : IsRelativeTo(e.path, IncomingDir \o <<d>>))]
    /\ combined = ManifestOf(fs)
    /\ config = DefaultConfig
    /\ groups = ReportsOf(combined)
    /\ analysis = IF combined = <<>> THEN NoAnalysis ELSE AnalysisOf(combined)
    /\ backupCfg \in BOOLEAN
    /\ staged0 = StagedDigests(fs)
    /\ cs = Idle
    /\ copyRes = [valid |-> FALSE, dry_run |-> FALSE,
                  res |-> [total |-> 0, copied |-> 0, skipped |-> 0, failed |-> 0, errors |-> 0]]
    /\ consRes = NoReport
    /\ faults = 0
    /\ runs = 0
    /\ combinedMeta = MetaOf(combined)
    /\ scanRes = NoScan
    /\ combineErr = FALSE
    /\ pool = NoPool
    /\ stages = SharedStages

Next == Consolidate

Spec == Init /\ [][Next]_vars

-----------------------------------------------------------------------------
(* FileCopier, MediaScanner and DuplicateDetector: one action per stage run *)

\* the media files of the source drives, in enumeration order
SourceOrder ==
    << DrivePath("photos") \o <<"a.jpg">>,
       DrivePath("photos") \o <<"REMOVE_a.jpg">>,
       DrivePath("backup") \o <<"a.jpg">>,
       DrivePath("backup") \o <<"KEEP_a.jpg">> >>

\* find_media_files(drive_dir, extensions)
MediaFiles(f, label) ==
    SelectSeq(SourceOrder, LAMBDA p : p \in DOMAIN f /\ IsRelativeTo(p, DrivePath(label)))

SourceFiles(f) == {p \in DOMAIN f : \E d \in Labels : IsRelativeTo(p, DrivePath(d))}

\* a destination directory made under the drive instead of under incoming/
CopyDestOnDrive(label, src_path) ==
    DrivePath(label) \o <<label>> \o RelativeTo(src_path, DrivePath(label))

\* dst_path = incoming_dir / drive_label / src_path.relative_to(drive_dir)
CopyDest(label, src_path) ==
    IncomingDir \o <<label>> \o RelativeTo(src_path, DrivePath(label))

NoDrive == [total |-> 0, copied |-> 0, skipped |-> 0, failed |-> 0, errors |-> 0]

\* a comparison that lets two empty digests pass
HashesEqual(src_hash, dst_hash) == src_hash = dst_hash

\* if src_hash and src_hash == dst_hash
HashVerified(src_hash, dst_hash) == src_hash # "" /\ src_hash = dst_hash

\* _copy_single_drive, the body of the loop over media_files
CopyOne(acc, label, src_path, dry_run, x) ==
    LET f == acc.fs
        dst_path == CopyDest(label, src_path)
        file_size == get_file_size(f, src_path)
    IN  IF dst_path \in DOMAIN f /\ SizeOf(f[dst_path]) = file_size
        THEN [acc EXCEPT
                !.res.skipped = @ + 1,
                !.entries = Append(@, Entry(dst_path, file_size,
                                            calculate_sha256(f, dst_path, x.dst_readable)))]
        ELSE IF dry_run
        THEN [acc EXCEPT !.res.copied = @ + 1]
        ELSE IF x.copy = "raise"
        THEN [acc EXCEPT !.fs = Put(f, dst_path, Partial),
                         !.res.failed = @ + 1, !.res.errors = @ + 1]
        ELSE LET f2 == Put(f, dst_path,
                           IF x.copy = "corrupt" THEN Corrupt(f[src_path]) ELSE f[src_path])
                 src_hash == calculate_sha256(f2, src_path, x.src_readable)
                 dst_hash == calculate_sha256(f2, dst_path, x.dst_readable)
             IN  IF HashVerified(src_hash, dst_hash)
                 THEN [acc EXCEPT !.fs = f2, !.res.copied = @ + 1,
                                  !.entries = Append(@, Entry(dst_path, file_size, dst_hash))]
                 ELSE [acc EXCEPT !.fs = f2,
                                  !.res.failed = @ + 1, !.res.errors = @ + 1]

RECURSIVE CopyFiles(_, _, _, _, _)
CopyFiles(acc, media_files, label, dry_run, plan) ==
    IF media_files = <<>> THEN acc
    ELSE CopyFiles(CopyOne(acc, label, Head(media_files), dry_run,
                           IF Head(media_files) \in DOMAIN plan
                           THEN plan[Head(media_files)] ELSE NoFault),
                   Tail(media_files), label, dry_run, plan)

\* a drive copied first, with the space shortage reported afterwards
CopyThenCheckSpace(f, label, dry_run, plan, space_ok) ==
    LET media_files == MediaFiles(f, label)
        start == [fs |-> f, entries |-> <<>>,
                  res |-> [NoDrive EXCEPT !.total = Len(media_files)]]
        done == CopyFiles(start, media_files, label, dry_run, plan)
    IN  IF media_files = <<>> THEN start
        ELSE IF dry_run THEN [done EXCEPT !.entries = <<>>]
        ELSE IF ~space_ok THEN [done EXCEPT !.res.errors = @ + 1]
        ELSE done

\* _copy_single_drive: [fs, entries, res], entries = <<>> when no manifest is written
CopySingleDrive(f, label, dry_run, plan, space_ok) ==
    LET media_files == MediaFiles(f, label)
        start == [fs |-> f, entries |-> <<>>,
                  res |-> [NoDrive EXCEPT !.total = Len(media_files)]]
    IN  IF media_files = <<>> THEN start
        ELSE IF ~dry_run /\ ~space_ok
        THEN [start EXCEPT !.res.errors = 1]
        ELSE LET done == CopyFiles(start, media_files, label, dry_run, plan)
             IN  IF dry_run THEN [done EXCEPT !.entries = <<>>] ELSE done

\* copy_all_drives: the loop over source_drives
RECURSIVE CopyDrives(_, _, _, _, _)
CopyDrives(acc, drives, dry_run, plan, low) ==
    IF drives = <<>> THEN acc
    ELSE LET label == Head(drives)
             r == CopySingleDrive(acc.fs, label, dry_run, plan, label \notin low)
         IN  CopyDrives([fs |-> r.fs,
                         manifests |-> [acc.manifests EXCEPT
                                          ![label] = IF r.entries = <<>> THEN @ ELSE r.entries],
                         res |-> [total |-> acc.res.total + r.res.total,
                                  copied |-> acc.res.copied + r.res.copied,
                                  skipped |-> acc.res.skipped + r.res.skipped,
                                  failed |-> acc.res.failed + r.res.failed,
                                  errors |-> acc.res.errors + r.res.errors]],
                        Tail(drives), dry_run, plan, low)

PlanCost(plan, low) == Cardinality(DOMAIN plan) + Cardinality(low)

\* FileCopier(config).copy_all_drives(dry_run)
CopyAllDrives(dry_run, plan, low) ==
    /\ cs.pc = "idle"
    /\ runs < MaxRuns
    /\ faults + PlanCost(plan, low) <= MaxFaults
    /\ dry_run => PlanCost(plan, low) = 0
    /\ LET r == CopyDrives([fs |-> fs, manifests |-> cpManifest, res |-> NoDrive],
                           DriveOrder, dry_run, plan, low)
       IN  /\ fs' = r.fs
           /\ cpManifest' = r.manifests
           /\ copyRes' = [valid |-> TRUE, dry_run |-> dry_run, res |-> r.res]
           /\ staged0' = StagedDigests(r.fs)
    /\ dirs' = dirs \cup {IncomingDir} \cup {IncomingDir \o <<d>> : d \in Labels}
    /\ faults' = faults + PlanCost(plan, low)
    /\ runs' = runs + 1
    /\ UNCHANGED <<srcManifest, combined, groups, backupCfg, config, analysis, combinedMeta, scanRes, combineErr, cs, consRes, pool, stages>>

\* the fault plans of a copy run: some files meet an I/O fault
Plans(f) ==
    UNION {[F -> CopyFaults \ {NoFault}] :
              F \in {G \in SUBSET SourceFiles(f) : Cardinality(G) <= MaxFaults}}

\* a scan that takes every configured drive for a directory
AlwaysAccessible(label, down) == TRUE

\* drive_dir.exists() and drive_dir.is_dir()
Accessible(label, down) == label \notin down

\* scan_source_drives: the loop over source_drives
RECURSIVE ScanDrives(_, _, _, _)
ScanDrives(acc, drives, f, down) ==
    IF drives = <<>> THEN acc
    ELSE LET label == Head(drives)
             media_files == MediaFiles(f, label)
             drive_files == [i \in 1..Len(media_files) |->
                               Entry(media_files[i], get_file_size(f, media_files[i]), "")]
         IN  IF ~Accessible(label, down)
             THEN ScanDrives([acc EXCEPT !.results.errors = @ + 1], Tail(drives), f, down)
             ELSE ScanDrives(
                    [manifests |-> [acc.manifests EXCEPT
                                      ![label] = [present |-> TRUE, files |-> drive_files]],
                     results |-> [acc.results EXCEPT
                                      !.total_files = @ + Len(drive_files),
                                      !.total_size = @ + SumSizes(drive_files),
                                      !.drives_scanned = @ + 1]],
                    Tail(drives), f, down)

\* MediaScanner(config).scan_source_drives(); the drives in down are not mounted
ScanSourceDrives(down) ==
    /\ cs.pc = "idle"
    /\ faults + Cardinality(down) <= MaxFaults
    /\ LET r == ScanDrives([manifests |-> srcManifest,
                            results |-> [NoScan EXCEPT !.inaccessible = down]],
                           DriveOrder, fs, down)
       IN  /\ srcManifest' = r.manifests
           /\ scanRes' = r.results
    /\ faults' = faults + Cardinality(down)
    /\ UNCHANGED <<fs, dirs, cpManifest, combined, groups, backupCfg, config, analysis, staged0,
                   combinedMeta, combineErr, cs, copyRes, consRes, runs, pool, stages>>

\* a merge that reads the first manifest only
FirstManifest(manifests, order) ==
    IF order = <<>> THEN <<>> ELSE manifests[Head(order)]

\* combined_files.extend(files), manifest by manifest
RECURSIVE Concat(_, _)
Concat(manifests, order) ==
    IF order = <<>> THEN <<>>
    ELSE manifests[Head(order)] \o Concat(manifests, Tail(order))

\* the orders glob("*_copied_manifest.json") can list the manifests in
GlobOrders == {DriveOrder, <<DriveOrder[2], DriveOrder[1]>>}

\* total_size += sum(f.get('size', 0) for f in files), manifest by manifest
RECURSIVE TotalSize(_, _)
TotalSize(manifests, order) ==
    IF order = <<>> THEN 0
    ELSE SumSizes(manifests[Head(order)]) + TotalSize(manifests, Tail(order))

\* a listing that reports a manifest for every configured drive
EveryLabel(manifests) == Labels

\* manifests_dir.glob("*_copied_manifest.json")
ManifestFiles(manifests) == {d \in Labels : manifests[d] # <<>>}

\* MediaScanner(config).create_combined_manifest()
CreateCombinedManifest(order) ==
    /\ cs.pc = "idle"
    /\ IF ManifestFiles(cpManifest) = {}
       THEN /\ combineErr' = TRUE
            /\ UNCHANGED <<combined, combinedMeta>>
       ELSE LET combined_files == Concat(cpManifest, order)
            IN  /\ combined' = combined_files
                /\ combinedMeta' = [present |-> TRUE,
                                    total_files |-> Len(combined_files),
                                    total_size |-> TotalSize(cpManifest, order)]
                /\ combineErr' = FALSE
    /\ UNCHANGED <<fs, dirs, srcManifest, cpManifest, groups, backupCfg, config, analysis, staged0,
                   scanRes, cs, copyRes, consRes, faults, runs, pool, stages>>

\* _generate_reports: group_0000i.txt is written for each group found; a
\* report of an earlier analysis with a higher number stays
WriteReports(old, new) ==
    [i \in 1..(IF Len(new) > Len(old) THEN Len(new) ELSE Len(old)) |->
        IF i <= Len(new) THEN new[i] ELSE old[i]]

\* DuplicateDetector(config).analyze_duplicates()
AnalyzeDuplicates ==
    /\ cs.pc = "idle"
    /\ combined # <<>>
    /\ groups' = WriteReports(groups, ReportsOf(combined))
    /\ analysis' = AnalysisOf(combined)
    /\ UNCHANGED <<fs, dirs, srcManifest, cpManifest, combined, backupCfg, config, staged0,
                   combinedMeta, scanRes, combineErr,
                   cs, copyRes, consRes, faults, runs, pool, stages>>

Absent == [present |-> FALSE, files |-> <<>>]

InitPipeline ==
    /\ \E S \in SUBSET Range(SourceOrder) :
          /\ S # {}
          /\ Cardinality(S) <= MaxFiles
          /\ fs \in [S -> RealContents]
    /\ dirs = {}
    /\ srcManifest = [d \in Labels |-> Absent]
    /\ cpManifest = [d \in Labels |-> <<>>]
    /\ combined = <<>>
    /\ groups = <<>>
    /\ backupCfg \in BOOLEAN
    /\ config = DefaultConfig
    /\ analysis = NoAnalysis
    /\ staged0 = {}
    /\ cs = Idle
    /\ copyRes = [valid |-> FALSE, dry_run |-> FALSE, res |-> NoDrive]
    /\ consRes = NoReport
    /\ faults = 0
    /\ runs = 0
    /\ combinedMeta = MetaOf(combined)
    /\ scanRes = NoScan
    /\ combineErr = FALSE
    /\ pool = NoPool
    /\ stages = SharedStages

NextPipeline ==
    \/ \E down \in SUBSET Labels : ScanSourceDrives(down)
    \/ \E dry_run \in BOOLEAN, plan \in Plans(fs), low \in SUBSET Labels :
          CopyAllDrives(dry_run, plan, low)
    \/ \E order \in GlobOrders : CreateCombinedManifest(order)
    \/ AnalyzeDuplicates
    \/ Consolidate

SpecPipeline == InitPipeline /\ [][NextPipeline]_vars

\* the staged files of an analysis, in some listing order
DetectorOrder ==
    << IncomingDir \o <<"photos", "a.jpg">>,
       IncomingDir \o <<"backup", "a.jpg">>,
       IncomingDir \o <<"photos", "misc", "b.png">>,
       IncomingDir \o <<"backup", "misc", "c.cr2">> >>

MaxManifest == 4

\* the orders a manifest can list the files of S in
Orders(S) ==
    {o \in [1..Cardinality(S) -> S] : \A i, j \in 1..Cardinality(S) : i # j => o[i] # o[j]}

\* the default configuration and configurations that set every format score
\* and every folder bonus, also outside 0..100
QualityConfigs ==
    {DefaultConfig} \cup
    {[format_scores |-> [k \in {"raw_files", "high_res_jpg", "standard_jpg", "png", "heic",
                                  "videos_hd", "videos_sd"} |-> v],
      folder_bonuses |-> [k \in {"organized", "meaningful", "backup", "junk"} |-> w],
      size_thresholds |-> NoKeys,
      safety |-> [k \in {"max_duplicate_percentage"} |-> 50]] :
        v \in {-20, 150}, w \in {-200, 200}}

\* a staging area with its combined manifest (some hashes could not be read),
\* before the analysis
InitDetector ==
    /\ \E S \in SUBSET Range(DetectorOrder) :
          /\ S # {}
          /\ Cardinality(S) <= MaxManifest
          /\ fs \in [S -> {"S", "M", "L"}]   \* photographs of 1 MB, 15 MB and 60 MB
          /\ \E o \in Orders(S), U \in SUBSET S :
                combined = [i \in 1..Cardinality(S) |->
                              Entry(o[i], SizeOf(fs[o[i]]),
                                    IF o[i] \in U THEN "" ELSE Digest(fs[o[i]]))]
    /\ dirs = StagedDirs(fs)
    /\ srcManifest = [d \in Labels |-> Absent]
    /\ cpManifest = [d \in Labels |->
                        SelectSeq(combined, LAMBDA e : IsRelativeTo(e.path, IncomingDir \o <<d>>))]
    /\ groups = <<>>
    /\ backupCfg = FALSE
    /\ config \in QualityConfigs
    /\ analysis = NoAnalysis
    /\ staged0 = StagedDigests(fs)
    /\ cs = Idle
    /\ copyRes = [valid |-> FALSE, dry_run |-> FALSE, res |-> NoDrive]
    /\ consRes = NoReport
    /\ faults = 0
    /\ runs = 0
    /\ combinedMeta = MetaOf(combined)
    /\ scanRes = NoScan
    /\ combineErr = FALSE
    /\ pool = NoPool
    /\ stages = SharedStages

\* the analysis stage alone
NextDetector == AnalyzeDuplicates

SpecDetector == InitDetector /\ [][NextDetector]_vars

\* the copy stage alone, run again and again on the same drives
NextCopier ==
    \E dry_run \in BOOLEAN, plan \in Plans(fs), low \in SUBSET Labels :
       CopyAllDrives(dry_run, plan, low)

SpecCopier == InitPipeline /\ [][NextCopier]_vars

-----------------------------------------------------------------------------
(* Properties of the Consolidator *)

Staged(f) == Under(f, IncomingDir)
Archived(f) == Under(f, FinalDir)

\* C2: every path the Consolidator deletes is a descendant of incoming_dir;
\* a file at a path outside the staging root is never removed.
C2_DeletesOnlyStaged ==
    [][\A p \in DOMAIN fs : p \notin DOMAIN fs' => IsRelativeTo(p, IncomingDir)]_vars

\* C3: in a live run a REMOVE file is deleted only after the group's best_file
\* was copied to its destination and the two files' digests were compared and
\* found equal.
C3_RemoveOnlyAfterVerifiedCopy ==
    [][(cs.pc = "remove" /\ DOMAIN fs' # DOMAIN fs)
          => (cs.last.ok /\ cs.last.verified)]_vars

\* C4: every digest a staged file had before consolidation started is, at
\* every point of every sequence of runs (interrupted or not), the digest of
\* some file of the staging area or of the final archive.
C4_NoContentLost ==
    \A h \in staged0 : \E p \in Staged(fs) \cup Archived(fs) : Digest(fs[p]) = h

\* C4 witness: the first run was interrupted, a second live run is under way,
\* and a staged file of the manifest has been deleted.
C4_RerunAfterInterrupt ==
    /\ runs = 2
    /\ ~consRes.valid
    /\ cs.pc # "idle"
    /\ ~cs.dry_run
    /\ cs.stats.files_kept > 0
    /\ \E i \in DOMAIN combined :
          /\ IsRelativeTo(combined[i].path, IncomingDir)
          /\ combined[i].path \notin DOMAIN fs

\* the distinct non-empty hashes of a manifest
DistinctHashes(files) == {files[i].hash : i \in DOMAIN files} \ {""}

\* C5: after a live consolidation that reports no errors (and met no I/O
\* fault), the final archive
\* holds exactly one file per distinct non-empty hash of the combined manifest
\* and only the top-ranked member of each duplicate group is left in staging.
C5_OneFilePerHash ==
    (/\ consRes.valid
     /\ ~consRes.dry_run
     /\ consRes.success
     /\ cs.pc = "idle"
     /\ faults = 0
     /\ \A i \in DOMAIN combined : IsRelativeTo(combined[i].path, IncomingDir))
    => /\ Cardinality(Archived(fs)) = Cardinality(DistinctHashes(combined))
       /\ \A h \in DistinctHashes(combined) :
             \E p \in Archived(fs) : Digest(fs[p]) = h
       /\ \A g \in DOMAIN groups :
             \A k \in 2..Len(DuplicateGroups(combined)[g]) :
                DuplicateGroups(combined)[g][k].path \notin DOMAIN fs

\* C6: a file of the final archive is never overwritten, moved or deleted:
\* every step (without an I/O fault) leaves each existing archive file in
\* place with its bytes.
C6_ArchiveFilesKept ==
    [][faults' = 0 => \A p \in Archived(fs) : p \in DOMAIN fs' /\ fs'[p] = fs[p]]_vars

\* the name with the numeric suffix _k before the extension
Suffixed(name, k) ==
    CASE name = "a.jpg" /\ k = 2 -> "a_2.jpg"
      [] name = "a.jpg" /\ k = 3 -> "a_3.jpg"
      [] name = "KEEP_a.jpg" /\ k = 2 -> "KEEP_a_2.jpg"
      [] name = "KEEP_a.jpg" /\ k = 3 -> "KEEP_a_3.jpg"
      [] name = "REMOVE_a.jpg" /\ k = 2 -> "REMOVE_a_2.jpg"
      [] name = "REMOVE_a.jpg" /\ k = 3 -> "REMOVE_a_3.jpg"
      [] OTHER -> name

MaxSuffix == 3

\* the destination the collision rule resolves to
ResolvedDest(f, source, computed) ==
    IF computed \notin DOMAIN f \/ SizeOf(f[computed]) = SizeOf(f[source])
    THEN computed
    ELSE LET free == {k \in 2..MaxSuffix :
                         Parent(computed) \o <<Suffixed(FileName(computed), k)>> \notin DOMAIN f}
             k == CHOOSE k \in free : \A j \in free : k <= j
         IN  Parent(computed) \o <<Suffixed(FileName(computed), k)>>

\* C7: a copy into the archive (without an I/O fault) lands on the computed path when nothing is there
\* or the file there has the source's size, and otherwise on name_k.ext for the
\* smallest free k >= 2.
C7_CollisionNaming ==
    [][(faults' = 0 /\ cs'.last # cs.last /\ cs'.last.ok)
          => cs'.last.dest = ResolvedDest(fs, cs'.last.source, cs'.last.computed)]_vars

\* C8: a dry-run consolidation changes no file and no directory: staging,
\* archive and backup area are the same after each of its steps.
C8_DryRunChangesNothing ==
    [][(cs.pc # "idle" /\ cs.dry_run) => (fs' = fs /\ dirs' = dirs)]_vars

\* C8 witness: a dry run with backup_before_removal set has completed and
\* counted both kept and removed files.
C8_DryRunCompleted ==
    /\ consRes.valid
    /\ consRes.dry_run
    /\ backupCfg
    /\ consRes.stats.files_removed > 0
    /\ consRes.stats.files_kept > 0

\* best_file and files_to_remove as the report of a ranked group states them
Ranked(members) ==
    [best_file |-> members[1].path,
     files_to_remove |-> [k \in 1..(Len(members) - 1) |-> members[k + 1].path]]

\* C9: parsing the report written for a group m1..mn recovers best_file = m1
\* and files_to_remove = m2..mn in order.
C9_ReportRoundTrip ==
    \A g \in DOMAIN groups :
        ParseGroupFile(groups[g]) = Ranked(DuplicateGroups(combined)[g])

-----------------------------------------------------------------------------
(* Properties of the pipeline *)

\* C1: no step of any stage creates, changes or deletes a file under a source
\* drive, and a scan or an analysis leaves the staging tree as it is.
C1_SourcesReadOnly ==
    [][/\ Restrict(fs', SourceFiles(fs')) = Restrict(fs, SourceFiles(fs))
       /\ ((\E down \in SUBSET Labels : ScanSourceDrives(down)) \/ AnalyzeDuplicates)
             => (Restrict(fs', Staged(fs')) = Restrict(fs, Staged(fs)) /\ dirs' = dirs)]_vars

\* C1 witness: the drives were scanned, a live copy staged files, the analysis
\* wrote a group report and a live consolidation deleted a duplicate.
C1_AllStagesRan ==
    /\ \A d \in Labels : srcManifest[d].present
    /\ copyRes.valid /\ ~copyRes.dry_run /\ copyRes.res.copied > 0
    /\ groups # <<>>
    /\ consRes.valid /\ ~consRes.dry_run /\ consRes.stats.files_removed > 0
    /\ SourceFiles(fs) # {}

\* the source file a staged path was copied from
SourceOf(dst_path) == DrivePath(dst_path[3]) \o SubSeq(dst_path, 4, Len(dst_path))

\* C10: every entry of a per-drive copy manifest a copy run writes has a
\* non-empty hash, the digest of the staged file and of its source file.
C10_ManifestHashes ==
    [][\A d \in Labels :
          cpManifest'[d] # cpManifest[d] =>
             \A i \in DOMAIN cpManifest'[d] :
                LET e == cpManifest'[d][i]
                IN  /\ e.hash # ""
                    /\ e.path \in DOMAIN fs'
                    /\ e.hash = Digest(fs'[e.path])
                    /\ e.hash = Digest(fs'[SourceOf(e.path)])]_vars

\* one file of a live copy run, starting from an empty result
CopiedOne(label, src_path, x) ==
    CopyOne([fs |-> fs, entries |-> <<>>, res |-> NoDrive], label, src_path, FALSE, x)

\* the loop reaches the copy-and-verify branch for src_path
ReachesCopy(label, src_path, x) ==
    /\ ~(/\ CopyDest(label, src_path) \in DOMAIN fs
         /\ SizeOf(fs[CopyDest(label, src_path)]) = get_file_size(fs, src_path))
    /\ x.copy # "raise"

\* C11: when, after a copy, the source digest is empty or differs from the
\* destination digest, the file gets no manifest entry, failed and the error
\* list grow by one, the destination stays, and the loop goes on: every media
\* file of the drive is counted as copied, skipped or failed.
C11_FailedVerification ==
    \A label \in Labels :
       /\ \A src_path \in Range(MediaFiles(fs, label)) : \A x \in CopyFaults :
             LET r == CopiedOne(label, src_path, x)
                 dst_path == CopyDest(label, src_path)
                 src_hash == calculate_sha256(r.fs, src_path, x.src_readable)
                 dst_hash == calculate_sha256(r.fs, dst_path, x.dst_readable)
             IN  (ReachesCopy(label, src_path, x) /\ (src_hash = "" \/ src_hash # dst_hash))
                    => /\ r.entries = <<>>
                       /\ r.res = [NoDrive EXCEPT !.failed = 1, !.errors = 1]
                       /\ dst_path \in DOMAIN r.fs
                       /\ Restrict(r.fs, DOMAIN fs \ {dst_path}) = Restrict(fs, DOMAIN fs \ {dst_path})
       /\ \A plan \in Plans(fs) :
             LET media_files == MediaFiles(fs, label)
                 done == CopyFiles([fs |-> fs, entries |-> <<>>, res |-> NoDrive],
                                   media_files, label, FALSE, plan)
             IN  /\ done.res.copied + done.res.skipped + done.res.failed = Len(media_files)
                 /\ done.res.errors = done.res.failed
                 /\ Len(done.entries) = done.res.copied + done.res.skipped

\* C11 witness: a live copy run failed verification on one file, left its
\* destination without a manifest entry, and staged a later file of the drive.
C11_FailedThenCopied ==
    /\ copyRes.valid /\ ~copyRes.dry_run
    /\ copyRes.res.failed = 1 /\ copyRes.res.errors = 1
    /\ \E d \in Labels : \E i, j \in DOMAIN MediaFiles(fs, d) :
          LET bad == CopyDest(d, MediaFiles(fs, d)[i])
              good == CopyDest(d, MediaFiles(fs, d)[j])
          IN  /\ i < j
              /\ bad \in DOMAIN fs
              /\ fs[bad] = Corrupt(fs[MediaFiles(fs, d)[i]])
              /\ \A k \in DOMAIN cpManifest[d] : cpManifest[d][k].path # bad
              /\ \E k \in DOMAIN cpManifest[d] : cpManifest[d][k].path = good

\* C12: over any sequence of copy runs, no copy manifest gains an entry for a
\* staged destination whose bytes differ from the bytes of its source: a
\* destination that failed verification or was left partial is never accepted.
C12_FailedNeverAccepted ==
    [][\A d \in Labels :
          \A i \in DOMAIN cpManifest'[d] :
             (/\ cpManifest'[d][i] \notin Range(cpManifest[d])
              /\ cpManifest'[d][i].path \in DOMAIN fs')
                => fs'[cpManifest'[d][i].path] = fs'[SourceOf(cpManifest'[d][i].path)]]_vars

\* a step that is a live copy_all_drives run
LiveCopyRun == runs' # runs /\ cs' = cs /\ ~copyRes'.dry_run

\* the last copy run was live and copied and verified every media file
AllCopied ==
    /\ copyRes.valid /\ ~copyRes.dry_run
    /\ copyRes.res.total = Cardinality(SourceFiles(fs))
    /\ copyRes.res.copied = copyRes.res.total
    /\ copyRes.res.failed = 0 /\ copyRes.res.errors = 0
    /\ \A d \in Labels : \A p \in Range(MediaFiles(fs, d)) : CopyDest(d, p) \in DOMAIN fs

StagedFor(f, label) == Restrict(f, Under(f, IncomingDir \o <<label>>))

\* a live copy_all_drives from the current state, the drives in low being short of space
LiveCopy(plan, low) ==
    CopyDrives([fs |-> fs, manifests |-> cpManifest, res |-> NoDrive],
               DriveOrder, FALSE, plan, low)

-----------------------------------------------------------------------------
(* Properties of the DuplicateDetector *)

\* the places of a file in the duplicate groups of the analysis
PlacesInGroups(e) ==
    {<<g, k>> \in (DOMAIN analysis.groups) \X (1..Len(combined)) :
        k <= Len(analysis.groups[g].files) /\ analysis.groups[g].files[k] = e}

PlacesInUnique(e) == {k \in DOMAIN analysis.unique : analysis.unique[k] = e}

Unhashed(files) == {i \in DOMAIN files : files[i].hash = ""}

\* C15: after an analysis every manifest file with a hash is in exactly one
\* duplicate group (of two or more files that all have its hash) or is counted
\* as unique (its hash occurs once), never both; files without a hash are in
\* neither, and unique_files + total_duplicates + the number of files without
\* a hash = total_files.
C15_PartitionByHash ==
    analysis.valid =>
       /\ \A g \in DOMAIN analysis.groups :
             /\ Len(analysis.groups[g].files) >= 2
             /\ analysis.groups[g].hash # ""
             /\ \A k \in DOMAIN analysis.groups[g].files :
                   /\ analysis.groups[g].files[k].hash = analysis.groups[g].hash
                   /\ analysis.groups[g].files[k] \in Range(combined)
             /\ \A h \in DOMAIN analysis.groups :
                   h # g => analysis.groups[h].hash # analysis.groups[g].hash
       /\ \A i \in DOMAIN combined :
             LET e == combined[i]
                 ingroups == Cardinality(PlacesInGroups(e))
                 inunique == Cardinality(PlacesInUnique(e))
             IN  IF e.hash = ""
                 THEN ingroups = 0 /\ inunique = 0
                 ELSE /\ ingroups + inunique = 1
                      /\ inunique = 1 <=> Len(WithHash(combined, e.hash)) = 1
       /\ analysis.unique_files = Len(analysis.unique)
       /\ analysis.total_files = Len(combined)
       /\ analysis.unique_files + analysis.total_duplicates
             + Cardinality(Unhashed(combined)) = analysis.total_files

\* C15 witness: an analysis of a manifest with a duplicate group, a unique
\* file and a file without a hash.
C15_GroupUniqueUnhashed ==
    /\ analysis.valid
    /\ analysis.duplicate_groups = 1
    /\ analysis.total_duplicates = 2
    /\ analysis.unique_files = 1
    /\ analysis.total_files = 4
    /\ Cardinality(Unhashed(combined)) = 1

\* the place of a file in the combined manifest
Pos(e) == CHOOSE i \in DOMAIN combined : combined[i] = e

LinesOfKind(report, kind) == SelectSeq(report, LAMBDA l : l.kind = kind)

\* C16: the members of every duplicate group are in descending order of
\* quality score, members of equal score in manifest order; best_file is the
\* first member (of maximal score, the earliest of these in the manifest), the
\* only one the group report marks KEEP, and space_savings = total_size -
\* best_file.size.
C16_BestFileRanking ==
    analysis.valid =>
       \A g \in DOMAIN analysis.groups :
          LET G == analysis.groups[g]
              n == Len(G.files)
              entries == LinesOfKind(groups[g], "entry")
              fulls == LinesOfKind(groups[g], "full")
          IN  /\ \A k, l \in 1..n :
                    k < l =>
                       /\ QualityScore(G.files[k]) >= QualityScore(G.files[l])
                       /\ QualityScore(G.files[k]) = QualityScore(G.files[l])
                             => Pos(G.files[k]) < Pos(G.files[l])
              /\ G.best_file = G.files[1]
              /\ \A k \in 1..n :
                    \/ QualityScore(G.best_file) > QualityScore(G.files[k])
                    \/ /\ QualityScore(G.best_file) = QualityScore(G.files[k])
                       /\ Pos(G.best_file) <= Pos(G.files[k])
              /\ G.total_size = SumSizes(G.files)
              /\ G.space_savings = G.total_size - G.best_file.size
              /\ Len(entries) = n /\ Len(fulls) = n
              /\ \A k \in 1..n :
                    /\ entries[k].action = (IF k = 1 THEN "KEEP" ELSE "REMOVE")
                    /\ fulls[k].path = G.files[k].path

\* C16 witness: a group of three whose best file is not the first of them in
\* the manifest and whose other two members have the same score.
C16_TieBehindBest ==
    /\ analysis.valid
    /\ \E g \in DOMAIN analysis.groups :
          LET G == analysis.groups[g]
          IN  /\ Len(G.files) = 3
              /\ QualityScore(G.files[1]) > QualityScore(G.files[2])
              /\ QualityScore(G.files[2]) = QualityScore(G.files[3])
              /\ Pos(G.files[1]) > Pos(G.files[2])
              /\ groups # <<>>

\* C17: the analysis warns of a high duplicate percentage exactly when the
\* files in duplicate groups are more than max_duplicate_percentage percent of
\* the files of the manifest, and duplicate_percentage is that same ratio of
\* file counts.
C17_WarningByFileCount ==
    analysis.valid =>
       /\ analysis.duplicate_percentage.num = analysis.total_duplicates * 100
       /\ analysis.duplicate_percentage.den = analysis.total_files
       /\ analysis.warned <=>
             analysis.total_duplicates * 100
                > Get(config.safety, "max_duplicate_percentage", 80) * analysis.total_files

\* the score of a file like e of another size
ScoreAtSize(e, size) == QualityScore([e EXCEPT !.size = size])

\* C18: a file of more than 50 MB scores 10 more, and a file of more than
\* 10 MB and at most 50 MB scores 5 more, than the same file of 1 MB, when the
\* format score does not depend on the size (PNG) and no score is clamped.
C18_SizeBonusThresholds ==
    \A i \in DOMAIN combined :
       LET e == combined[i]
       IN  (/\ ExtensionOf(e.path) = "png"
            /\ \A size \in {1 * MB, 15 * MB, 60 * MB} :
                  ScoreAtSize(e, size) > 0 /\ ScoreAtSize(e, size) < 100)
              => /\ ScoreAtSize(e, 60 * MB) - ScoreAtSize(e, 1 * MB) = 10
                 /\ ScoreAtSize(e, 15 * MB) - ScoreAtSize(e, 1 * MB) = 5

\* C19: every quality score an analysis computes, for any file and any
\* configured format scores and folder bonuses, is between 0 and 100.
C19_ScoreClamped ==
    analysis.valid =>
       /\ DOMAIN analysis.scores = DOMAIN combined
       /\ \A i \in DOMAIN analysis.scores :
             /\ analysis.scores[i] = QualityScore(combined[i])
             /\ analysis.scores[i] >= 0
             /\ analysis.scores[i] <= 100

\* C19 witness: under a configuration with a format score above 100 and a
\* folder bonus below -100, an analysis scored one file 0 and another 100.
C19_BothEndsClamped ==
    /\ analysis.valid
    /\ Get(config.format_scores, "png", 65) > 100
    /\ Get(config.folder_bonuses, "organized", 10) < -100
    /\ \E i, j \in DOMAIN analysis.scores :
          analysis.scores[i] = 0 /\ analysis.scores[j] = 100

-----------------------------------------------------------------------------
(* Properties of the unique-file pass *)

\* the manifest entries whose hash no other entry has
OnceHashed(files) ==
    {i \in DOMAIN files :
        /\ files[i].hash # ""
        /\ \A j \in DOMAIN files : files[j].hash = files[i].hash => j = i}

\* the unique files that exist under the staging root
StagedUnique == {i \in OnceHashed(combined) : combined[i].path \in Staged(fs)}

\* a step of the loop over unique_files
UniqueStep == cs.pc # "idle" /\ cs'.pc # "idle" /\ cs'.u = cs.u + 1

\* a step that ends a run with its final report
RunCompleted == cs.pc # "idle" /\ cs'.pc = "idle" /\ consRes' # consRes

\* C20: in a live run (without an I/O fault) the unique files are processed
\* after every duplicate group; each unique file that exists under the staging
\* root is copied to its place in the final archive, verified by digest and
\* counted in unique_files_copied, so the finished run has counted all of them;
\* no step of the run deletes or changes a unique file in staging.
C20_UniqueFilesCopied ==
    [][(cs.pc # "idle" /\ ~cs.dry_run /\ faults' = 0)
          => /\ UniqueStep => (cs.todo = {} /\ cs.pc = "groups")
             /\ cs.u > 0 => (cs.todo = {} /\ cs'.pc \in {"groups", "idle"})
             /\ \A i \in StagedUnique :
                   /\ combined[i].path \in DOMAIN fs'
                   /\ fs'[combined[i].path] = fs[combined[i].path]
             /\ (UniqueStep /\ cs'.last # NoCopy)
                   => /\ cs'.last.source \in {combined[i].path : i \in StagedUnique}
                      /\ cs'.last.ok /\ cs'.last.verified
                      /\ cs'.last.dest = DestPath(cs'.last.source)
                      /\ cs'.last.dest \in Archived(fs')
                      /\ fs'[cs'.last.dest] = fs[cs'.last.source]
                      /\ cs'.stats.unique_files_copied = cs.stats.unique_files_copied + 1
             /\ RunCompleted
                   => consRes'.stats.unique_files_copied = Cardinality(StagedUnique)]_vars

\* C20 witness: a live run without an I/O fault removed a duplicate and then
\* copied the unique file to the final archive.
C20_GroupsThenUniques ==
    /\ consRes.valid /\ ~consRes.dry_run /\ faults = 0
    /\ consRes.stats.files_removed > 0
    /\ consRes.stats.unique_files_copied = 1
    /\ Cardinality(StagedUnique) = 1
    /\ Archived(fs) # {}

-----------------------------------------------------------------------------
(* Properties of the run reports *)

\* C21: a dry run reports the counts of the live run: a live run that
\* completes without errors (and without an I/O fault) from the state a completed dry run has just
\* previewed reports the same files_kept, files_removed, total_processed and
\* space_saved as that dry run.
C21_DryRunProjectsCounts ==
    [][(/\ RunCompleted /\ ~cs.dry_run /\ runs = 2 /\ faults' = 0
        /\ consRes.valid /\ consRes.dry_run
        /\ consRes'.success)
          => /\ consRes'.stats.files_kept = consRes.stats.files_kept
             /\ consRes'.stats.files_removed = consRes.stats.files_removed
             /\ consRes'.stats.total_processed = consRes.stats.total_processed
             /\ consRes'.stats.space_saved = consRes.stats.space_saved]_vars

\* the paths a group report lists, the KEEP entry first
ReportPaths(report) ==
    [k \in 1..Len(LinesOfKind(report, "full")) |-> LinesOfKind(report, "full")[k].path]

\* the report was applied: its KEEP file is in the archive and its REMOVE
\* files are gone from staging
Applied(f, report) ==
    LET paths == ReportPaths(report)
    IN  /\ paths # <<>>
        /\ paths[1] \in DOMAIN f
        /\ IsRelativeTo(paths[1], IncomingDir)
        /\ DestPath(paths[1]) \in DOMAIN f
        /\ \A k \in 2..Len(paths) : paths[k] \notin DOMAIN f

\* C22: nothing is dropped without an error: a live run that ends with
\* success = true (and met no I/O fault) has applied every group report and
\* copied every unique file of the manifest to the archive.
C22_SuccessMeansApplied ==
    [][(RunCompleted /\ ~cs.dry_run /\ faults' = 0 /\ consRes'.success)
          => /\ \A g \in DOMAIN groups : Applied(fs', groups[g])
             /\ \A i \in OnceHashed(combined) :
                   /\ IsRelativeTo(combined[i].path, IncomingDir)
                   /\ DestPath(combined[i].path) \in DOMAIN fs']_vars

-----------------------------------------------------------------------------
(* Properties of the destination path *)

\* <rest> of a staged path incoming/<drive-label>/<rest>
RestOf(p) == SubSeq(p, Len(IncomingDir) + 2, Len(p))

-----------------------------------------------------------------------------
(* Consolidation of files that lie in a folder below the drive label *)

\* staged files in a vacation/ folder of two drives
DatedOrder ==
    << IncomingDir \o <<"photos", "vacation", "a.jpg">>,
       IncomingDir \o <<"photos", "vacation", "REMOVE_a.jpg">>,
       IncomingDir \o <<"backup", "vacation", "KEEP_a.jpg">> >>

\* the manifest of the files of f among the paths of order, hashed
ManifestIn(order, f) ==
    LET paths == SelectSeq(order, LAMBDA p : p \in DOMAIN f)
    IN  [i \in 1..Len(paths) |-> Entry(paths[i], SizeOf(f[paths[i]]), Digest(f[paths[i]]))]

\* staged files with their manifest and group reports, after the analysis
InitDated ==
    /\ \E S \in SUBSET Range(DatedOrder) :
          /\ S # {}
          /\ Cardinality(S) <= MaxFiles
          /\ fs \in [S -> RealContents]
    /\ dirs = StagedDirs(fs)
    /\ srcManifest = [d \in Labels |-> Absent]
    /\ combined = ManifestIn(DatedOrder, fs)
    /\ cpManifest = [d \in Labels |->
                        SelectSeq(combined, LAMBDA e : IsRelativeTo(e.path, IncomingDir \o <<d>>))]
    /\ config = DefaultConfig
    /\ groups = ReportsOf(combined)
    /\ analysis = AnalysisOf(combined)
    /\ backupCfg \in BOOLEAN
    /\ staged0 = StagedDigests(fs)
    /\ cs = Idle
    /\ copyRes = [valid |-> FALSE, dry_run |-> FALSE, res |-> NoDrive]
    /\ consRes = NoReport
    /\ faults = 0
    /\ runs = 0
    /\ combinedMeta = MetaOf(combined)
    /\ scanRes = NoScan
    /\ combineErr = FALSE
    /\ pool = NoPool
    /\ stages = SharedStages

SpecDated == InitDated /\ [][Next]_vars

\* extract_photo_date: the (year, month) the metadata of the file gives, <<>>
\* when it gives none
extract_photo_date(c) == IF c \in {"A", "A~"} THEN <<2020, 7>> ELSE <<>>

\* the folder name with the suffix _YYYY-MM
DateSuffixed(name, date) ==
    IF name = "vacation" /\ date = <<2020, 7>> THEN "vacation_2020-07" ELSE name

\* the destination with the date suffix on its top-level folder
WithDateSuffix(dest, date) ==
    IF date = <<>> \/ Len(dest) < Len(FinalDir) + 2 THEN dest
    ELSE [dest EXCEPT ![Len(FinalDir) + 1] = DateSuffixed(@, date)]

\* C24: a file whose metadata gives a capture date is copied to the archive
\* under its top-level folder with the suffix _YYYY-MM, a file without a date
\* under the folder as it is named.
C24_DateSuffix ==
    [][(cs'.last # cs.last /\ cs'.last # NoCopy /\ faults' = 0)
          => cs'.last.dest =
                WithDateSuffix(FinalDir \o RestOf(cs'.last.source),
                               extract_photo_date(fs[cs'.last.source]))]_vars

-----------------------------------------------------------------------------
(* MediaScanner: the combined manifest and the scan of the source drives *)

\* C25: a create_combined_manifest that writes copied_files_combined.json
\* writes the per-drive copy manifests one after the other, in a listing order,
\* with no entry lost or added, total_files the number of entries and
\* total_size the sum of their sizes
C25_CombinedIsConcatenation ==
    [][(combined' # combined \/ combinedMeta' # combinedMeta) =>
          /\ \E order \in GlobOrders :
                combined' = cpManifest[order[1]] \o cpManifest[order[2]]
          /\ Len(combined') = Len(cpManifest[DriveOrder[1]]) + Len(cpManifest[DriveOrder[2]])
          /\ combinedMeta'.present
          /\ combinedMeta'.total_files = Len(combined')
          /\ combinedMeta'.total_size = SumSizes(combined')]_vars

\* both drives have a copy manifest and the combined manifest lists the
\* second drive's entries first
C25_BothDrivesMerged ==
    /\ \A d \in Labels : cpManifest[d] # <<>>
    /\ combined = cpManifest[DriveOrder[2]] \o cpManifest[DriveOrder[1]]
    /\ combinedMeta.present
    /\ combinedMeta.total_files = Len(combined)
    /\ combinedMeta.total_files >= 2
    /\ combinedMeta.total_size = SumSizes(combined)

\* C26: while no per-drive copy manifest exists, create_combined_manifest
\* raises FileNotFoundError and copied_files_combined.json is neither created
\* nor modified
C26_NoManifestsRaises ==
    [][((\A d \in Labels : cpManifest[d] = <<>>)
          /\ (combined' # combined \/ combinedMeta' # combinedMeta
                \/ combineErr' # combineErr))
          => /\ combineErr'
             /\ combined' = combined
             /\ combinedMeta' = combinedMeta]_vars

\* a copy stage ran without leaving a manifest, and the merge then raised
C26_RaisedAfterEmptyCopy ==
    /\ combineErr
    /\ copyRes.valid
    /\ \A d \in Labels : cpManifest[d] = <<>>
    /\ combined = <<>>
    /\ ~combinedMeta.present

\* C27: a scan_source_drives adds one error for each drive that is not
\* accessible, writes no manifest for it and does not count it in
\* drives_scanned; every other drive is scanned, and total_files and total_size
\* are the sums over the drives scanned
C27_InaccessibleDriveSkipped ==
    [][(scanRes' # scanRes \/ srcManifest' # srcManifest) =>
          LET down == scanRes'.inaccessible
              files(d) == IF d \in down THEN <<>> ELSE srcManifest'[d].files
          IN  /\ scanRes'.errors = Cardinality(down)
              /\ scanRes'.drives_scanned = Cardinality(Labels \ down)
              /\ \A d \in down : srcManifest'[d] = srcManifest[d]
              /\ \A d \in Labels \ down :
                    /\ srcManifest'[d].present
                    /\ {srcManifest'[d].files[i].path : i \in DOMAIN srcManifest'[d].files}
                          = {p \in DOMAIN fs : IsRelativeTo(p, DrivePath(d))}
              /\ scanRes'.total_files = Len(files(DriveOrder[1])) + Len(files(DriveOrder[2]))
              /\ scanRes'.total_size
                    = SumSizes(files(DriveOrder[1])) + SumSizes(files(DriveOrder[2]))]_vars

\* one drive with media files was not accessible and has no manifest, the
\* other drive was scanned
C27_OneDriveDown ==
    /\ scanRes.errors = 1
    /\ scanRes.drives_scanned = 1
    /\ scanRes.total_files >= 1
    /\ \E d \in scanRes.inaccessible :
          /\ ~srcManifest[d].present
          /\ MediaFiles(fs, d) # <<>>
    /\ \E d \in Labels \ scanRes.inaccessible :
          /\ srcManifest[d].present
          /\ Len(srcManifest[d].files) = scanRes.total_files

-----------------------------------------------------------------------------
(* PhotoConsolidator: a second live run *)

\* the step that ends a run after the last unique file
RunEnds ==
    /\ cs.pc = "groups"
    /\ cs.todo = {}
    /\ cs.u = Len(UniqueFiles(combined))
    /\ cs'.pc = "idle"

\* C28: a live run that follows a completed live run on the same manifest and
\* group reports (no I/O fault in either run) deletes no file, leaves the files
\* of the final archive and their bytes as the first run left them, and records
\* no error that the first run did not record
C28_SecondRunChangesNothing ==
    [][(/\ RunEnds /\ ~cs.dry_run /\ runs = 2 /\ faults' = 0
        /\ consRes.valid /\ ~consRes.dry_run)
          => /\ DOMAIN cs.fs0 \subseteq DOMAIN fs'
             /\ Under(fs', FinalDir) = Under(cs.fs0, FinalDir)
             /\ \A p \in Under(fs', FinalDir) : fs'[p] = cs.fs0[p]
             /\ Range(consRes'.stats.errors) \subseteq Range(consRes.stats.errors)]_vars

\* the second live run has ended: the first removed a duplicate and kept
\* files, the second found nothing to remove and copied the same files again
C28_SecondRunEnded ==
    /\ runs = 2
    /\ cs.pc = "idle"
    /\ faults = 0
    /\ consRes.valid /\ ~consRes.dry_run
    /\ consRes.stats.files_removed = 0
    /\ consRes.stats.files_kept >= 2
    /\ Cardinality(Under(fs, FinalDir)) >= 1
    /\ \E g \in DOMAIN groups :
          \E p \in Range(ParseGroupFile(groups[g]).files_to_remove) :
             InIncoming(p) /\ p \notin DOMAIN fs

-----------------------------------------------------------------------------
(* FileCopier: the copy manifests after a later run *)

\* C30: after a live copy run the copy manifests describe that run only: their
\* entries are the files the run copied or skip-verified, so they are as many
\* as copied + skipped, and a drive for which the run copied and skipped
\* nothing (every file failed, the space check failed, no media file) is left
\* without entries of an earlier run
C30_ManifestOfThisRunOnly ==
    [][LiveCopyRun =>
          Len(cpManifest'[DriveOrder[1]]) + Len(cpManifest'[DriveOrder[2]])
             = copyRes'.res.copied + copyRes'.res.skipped]_vars

-----------------------------------------------------------------------------
(* DuplicateDetector: the group reports after a later analysis *)

\* C29: after any sequence of analyses the group reports in duplicates/groups/
\* are the duplicate groups of the most recent analysis, one report per group
\* and each listing the files of its group; no report of an earlier analysis
\* remains
C29_ReportsOfLatestAnalysis ==
    analysis.valid =>
       /\ Len(groups) = analysis.duplicate_groups
       /\ \A g \in DOMAIN groups :
             /\ g <= Len(analysis.groups)
             /\ Range(ReportPaths(groups[g]))
                   = {analysis.groups[g].files[k].path : k \in DOMAIN analysis.groups[g].files}

-----------------------------------------------------------------------------
(* PhotoConsolidator: backup before removal *)

\* the backup copy of a REMOVE file of the group being processed
BackupPath(c, file_path) == BackupDir \o <<GroupName(c.g), FileName(file_path)>>

\* C31: in a live run with backup_before_removal every REMOVE file that is
\* deleted had a backup copy into backup/consolidation/<group>/ attempted
\* before; a backup step, failed or not, adds no error and the removal that
\* follows still deletes the file; a dry run creates no backup
C31_BackupBeforeRemoval ==
    [][/\ (cs.pc = "remove" /\ ~cs.dry_run /\ backupCfg)
            => \A p \in DOMAIN fs \ DOMAIN fs' : p \in cs.backups
       /\ (cs.pc = "backup" /\ cs'.pc # "idle")
            => /\ cs'.stats = cs.stats
               /\ cs'.pc \in {"backup", "remove"}
               /\ \A p \in DOMAIN fs' \ DOMAIN fs :
                     p = BackupPath(cs, cs.files_to_remove[cs.i])
               /\ DOMAIN fs \subseteq DOMAIN fs'
       /\ (/\ cs.pc = "remove" /\ ~cs.dry_run /\ cs'.pc # "idle" /\ faults' = faults
           /\ cs.files_to_remove[cs.i] \in DOMAIN fs
           /\ InIncoming(cs.files_to_remove[cs.i]))
            => cs.files_to_remove[cs.i] \notin DOMAIN fs'
       /\ (cs.pc # "idle" /\ cs.dry_run)
            => /\ cs.pc # "backup"
               /\ Under(fs', BackupDir) = Under(fs, BackupDir)]_vars

\* a live run ended without error after a backup copy failed: the REMOVE file
\* is deleted and its backup is not a copy of it
C31_DeletedAfterFailedBackup ==
    /\ backupCfg
    /\ consRes.valid /\ ~consRes.dry_run
    /\ consRes.stats.errors = <<>>
    /\ consRes.stats.files_removed = 1
    /\ faults = 1
    /\ \E g \in DOMAIN groups :
          \E p \in Range(ParseGroupFile(groups[g]).files_to_remove) :
             /\ p \notin DOMAIN fs
             /\ BackupDir \o <<GroupName(g), FileName(p)>> \in DOMAIN fs
             /\ fs[BackupDir \o <<GroupName(g), FileName(p)>>] \notin RealContents

-----------------------------------------------------------------------------
(* PhotoConsolidator: a group report that fails or has no KEEP entry *)

\* four staged files (two duplicate groups when the contents pair up), their
\* manifest and the group reports of its analysis
InitGroups ==
    /\ fs \in [StagedSlots -> RealContents]
    /\ dirs = StagedDirs(fs)
    /\ srcManifest = [d \in Labels |-> Absent]
    /\ combined = ManifestOf(fs)
    /\ cpManifest = [d \in Labels |->
                        SelectSeq(combined, LAMBDA e : IsRelativeTo(e.path, IncomingDir \o <<d>>))]
    /\ config = DefaultConfig
    /\ groups = ReportsOf(combined)
    /\ analysis = AnalysisOf(combined)
    /\ backupCfg \in BOOLEAN
    /\ staged0 = StagedDigests(fs)
    /\ cs = Idle
    /\ copyRes = [valid |-> FALSE, dry_run |-> FALSE, res |-> NoDrive]
    /\ consRes = NoReport
    /\ faults = 0
    /\ runs = 0
    /\ combinedMeta = MetaOf(combined)
    /\ scanRes = NoScan
    /\ combineErr = FALSE
    /\ pool = NoPool
    /\ stages = SharedStages

SpecGroups == InitGroups /\ [][Next]_vars

\* a step of the loop over the group files that ends with the exception handler
GroupRaised ==
    /\ cs.pc = "groups"
    /\ cs'.pc # "idle"
    /\ Len(cs'.stats.errors) = Len(cs.stats.errors) + 1
    /\ cs'.stats.errors[Len(cs'.stats.errors)].kind = "group"

\* C32: an exception while one group report is processed is recorded in the
\* error list and the run goes on: the loop stays on the remaining group
\* reports, nothing else of the stats changes, and a final report is produced
\* only after every group report and every unique file had its turn
C32_GroupFailureRecorded ==
    [][/\ GroupRaised =>
             /\ cs'.pc = "groups"
             /\ \E g \in cs.todo : cs'.todo = cs.todo \ {g}
             /\ [cs'.stats EXCEPT !.errors = <<>>] = [cs.stats EXCEPT !.errors = <<>>]
             /\ fs' = fs
       /\ (cs.pc # "idle" /\ consRes' # consRes) =>
             /\ cs.todo = {}
             /\ cs.u = Len(UniqueFiles(combined))
             /\ consRes'.stats.errors = cs.stats.errors]_vars

\* a live run of two group reports ended: one report could not be read, the
\* other was applied
C32_OtherGroupApplied ==
    /\ Len(groups) = 2
    /\ consRes.valid /\ ~consRes.dry_run
    /\ Len(consRes.stats.errors) = 1
    /\ consRes.stats.errors[1].kind = "group"
    /\ consRes.stats.files_kept = 1
    /\ consRes.stats.files_removed = 1
    /\ consRes.stats.unique_files_copied = 0
    /\ \E g \in DOMAIN groups :
          LET parsed == ParseGroupFile(groups[g])
          IN  /\ parsed.best_file \in DOMAIN fs
              /\ DestPath(parsed.best_file) \in DOMAIN fs
              /\ \E p \in Range(parsed.files_to_remove) : p \notin DOMAIN fs

\* a step of the loop over the group files that reads group g without an exception
GroupStep(g) ==
    /\ cs.pc = "groups"
    /\ cs'.pc # "idle"
    /\ g \in cs.todo
    /\ g \notin cs'.todo
    /\ faults' = faults

\* C33: for a group report in which no KEEP entry is found,
\* _process_single_group returns without raising: no file is copied, none
\* deleted (also none the report lists as REMOVE), and every counter of the
\* stats and the error list stay as they were
C33_NoKeepEntry ==
    [][\A g \in DOMAIN groups :
          (/\ GroupStep(g)
           /\ \A k \in DOMAIN groups[g] :
                 groups[g][k].kind = "full"
                    => \A i \in DOMAIN groups[g][k].path :
                          ~Contains("KEEP", groups[g][k].path[i]))
             => /\ fs' = fs
                /\ cs'.stats = cs.stats
                /\ cs'.pc = "groups"]_vars

\* a live run ended: a report listed a REMOVE file and had no KEEP entry, the
\* file is still staged and nothing was counted
C33_RemoveFileLeft ==
    /\ consRes.valid /\ ~consRes.dry_run
    /\ consRes.stats.total_processed = 0
    /\ consRes.stats.files_removed = 0
    /\ consRes.stats.errors = <<>>
    /\ \E g \in DOMAIN groups :
          LET parsed == ParseGroupFile(groups[g])
          IN  /\ parsed.best_file = <<>>
              /\ parsed.files_to_remove # <<>>
              /\ \A p \in Range(parsed.files_to_remove) : p \in DOMAIN fs

-----------------------------------------------------------------------------
(* PhotoScanner.create_copied_manifest: the thread pool and its accumulator *)

\* photo_consolidation.process.parallel_jobs
ParallelJobs == 2

\* create_manifest_entry(file_path, base_path)
create_manifest_entry(f, file_path, outcome) ==
    [error |-> outcome = "error",
     entry |-> IF outcome = "error" THEN Entry(file_path, 0, "")
               ELSE Entry(file_path, SizeOf(f[file_path]),
                          calculate_sha256(f, file_path, outcome = "ok"))]

\* an accumulator that keeps the last result only
LastOnly(entries, entry) == <<entry>>

\* manifest_entries.append(entry)
Accumulate(entries, entry) == Append(entries, entry)

\* create_copied_manifest up to the submission of one task per media file
StartCopiedManifest ==
    /\ pool.pc = "idle"
    /\ cs.pc = "idle"
    /\ runs < MaxRuns
    /\ IncomingDir \in dirs
    /\ Under(fs, IncomingDir) # {}
    /\ pool' = [pc |-> "collect",
                futures |-> [p \in Under(fs, IncomingDir) |->
                               [st |-> "queued", result |-> <<>>]],
                manifest_entries |-> <<>>,
                total_size |-> 0]
    /\ runs' = runs + 1
    /\ UNCHANGED <<fs, dirs, srcManifest, cpManifest, combined, groups, backupCfg, config,
                   analysis, combinedMeta, scanRes, combineErr, staged0, cs, copyRes,
                   consRes, faults, stages>>

\* a worker of the pool takes a queued task
WorkerStart(p) ==
    /\ pool.pc = "collect"
    /\ p \in DOMAIN pool.futures
    /\ pool.futures[p].st = "queued"
    /\ Cardinality({q \in DOMAIN pool.futures : pool.futures[q].st = "running"}) < ParallelJobs
    /\ pool' = [pool EXCEPT !.futures[p].st = "running"]
    /\ UNCHANGED <<fs, dirs, srcManifest, cpManifest, combined, groups, backupCfg, config,
                   analysis, combinedMeta, scanRes, combineErr, staged0, cs, copyRes,
                   consRes, faults, runs, stages>>

\* a worker returns from create_manifest_entry: the future is completed
WorkerFinish(p, outcome) ==
    /\ pool.pc = "collect"
    /\ p \in DOMAIN pool.futures
    /\ pool.futures[p].st = "running"
    /\ faults + (IF outcome = "ok" THEN 0 ELSE 1) <= MaxFaults
    /\ faults' = faults + (IF outcome = "ok" THEN 0 ELSE 1)
    /\ pool' = [pool EXCEPT !.futures[p] =
                   [st |-> "done", result |-> create_manifest_entry(fs, p, outcome)]]
    /\ UNCHANGED <<fs, dirs, srcManifest, cpManifest, combined, groups, backupCfg, config,
                   analysis, combinedMeta, scanRes, combineErr, staged0, cs, copyRes,
                   consRes, runs, stages>>

\* the calling thread: one turn of the loop over as_completed(future_to_file)
Collect(p) ==
    /\ pool.pc = "collect"
    /\ p \in DOMAIN pool.futures
    /\ pool.futures[p].st = "done"
    /\ LET r == pool.futures[p].result
       IN  pool' = IF r.error
                   THEN [pool EXCEPT !.futures[p].st = "taken"]
                   ELSE [pool EXCEPT !.futures[p].st = "taken",
                                     !.manifest_entries = Accumulate(@, r.entry),
                                     !.total_size = @ + r.entry.size]
    /\ UNCHANGED <<fs, dirs, srcManifest, cpManifest, combined, groups, backupCfg, config,
                   analysis, combinedMeta, scanRes, combineErr, staged0, cs, copyRes,
                   consRes, faults, runs, stages>>

\* create_copied_manifest after the pool has shut down: the manifest is saved
WriteCopiedManifest ==
    /\ pool.pc = "collect"
    /\ \A p \in DOMAIN pool.futures : pool.futures[p].st = "taken"
    /\ combined' = pool.manifest_entries
    /\ combinedMeta' = [present |-> TRUE,
                        total_files |-> Len(pool.manifest_entries),
                        total_size |-> pool.total_size]
    /\ pool' = NoPool
    /\ UNCHANGED <<fs, dirs, srcManifest, cpManifest, groups, backupCfg, config,
                   analysis, scanRes, combineErr, staged0, cs, copyRes, consRes,
                   faults, runs, stages>>

\* staged files before a manifest of the copied files is made
InitManifest ==
    /\ \E S \in SUBSET StagedSlots :
          /\ S # {}
          /\ Cardinality(S) <= MaxFiles
          /\ fs \in [S -> RealContents]
    /\ dirs = StagedDirs(fs)
    /\ srcManifest = [d \in Labels |-> Absent]
    /\ cpManifest = [d \in Labels |-> <<>>]
    /\ combined = <<>>
    /\ groups = <<>>
    /\ backupCfg = FALSE
    /\ config = DefaultConfig
    /\ analysis = NoAnalysis
    /\ staged0 = StagedDigests(fs)
    /\ cs = Idle
    /\ copyRes = [valid |-> FALSE, dry_run |-> FALSE, res |-> NoDrive]
    /\ consRes = NoReport
    /\ faults = 0
    /\ runs = 0
    /\ combinedMeta = NoMeta
    /\ scanRes = NoScan
    /\ combineErr = FALSE
    /\ pool = NoPool
    /\ stages = SharedStages

NextManifest ==
    \/ StartCopiedManifest
    \/ \E p \in StagedSlots : WorkerStart(p)
    \/ \E p \in StagedSlots, outcome \in {"ok", "unhashed", "error"} : WorkerFinish(p, outcome)
    \/ \E p \in StagedSlots : Collect(p)
    \/ WriteCopiedManifest

SpecManifest == InitManifest /\ [][NextManifest]_vars

\* the files whose entry was built without the key 'error'
Built(p) == {q \in DOMAIN p.futures : ~p.futures[q].result.error}

\* C34: whatever the order in which the workers complete, the manifest
\* create_copied_manifest saves has one entry for each file whose entry was
\* built without error, none lost and none twice, total_files is the number of
\* entries and total_size the sum of their sizes; the accumulator changes only
\* when the calling thread appends the result of one completed future
C34_OneEntryPerBuiltFile ==
    [][/\ (pool.pc = "collect" /\ pool'.pc = "idle") =>
             /\ \A q \in Built(pool) :
                   Cardinality({i \in DOMAIN combined' : combined'[i].path = q}) = 1
             /\ \A i \in DOMAIN combined' :
                   /\ combined'[i].path \in Built(pool)
                   /\ combined'[i] = pool.futures[combined'[i].path].result.entry
             /\ combinedMeta'.total_files = Len(combined')
             /\ combinedMeta'.total_size = SumSizes(combined')
       /\ (pool.pc = "collect" /\ pool'.pc = "collect"
           /\ pool'.manifest_entries # pool.manifest_entries) =>
             \E q \in DOMAIN pool.futures :
                /\ pool.futures[q].st = "done"
                /\ pool'.futures = [pool.futures EXCEPT ![q].st = "taken"]
                /\ pool'.manifest_entries
                      = Append(pool.manifest_entries, pool.futures[q].result.entry)]_vars

\* a manifest of three staged files was saved: one entry failed, the other two
\* were appended in the reverse of the order of submission
C34_OutOfOrderCompletion ==
    /\ pool.pc = "idle"
    /\ combinedMeta.present
    /\ combinedMeta.total_files = 2
    /\ Cardinality(Under(fs, IncomingDir)) = 3
    /\ faults = 1
    /\ Len(combined) = 2
    /\ \E i, j \in DOMAIN SlotOrder :
          /\ i < j
          /\ combined[1].path = SlotOrder[j]
          /\ combined[2].path = SlotOrder[i]

-----------------------------------------------------------------------------
(* PhotoConsolidator: a run without duplicate analysis *)

\* C35: a live run (without an I/O fault) that finds no group report treats
\* all files of the combined manifest as unique: when it ends, the bytes of
\* every manifest file staged under incoming/ are in the final archive, also
\* of files whose hash occurs more than once, and no staged file is deleted
C35_AllFilesWithoutAnalysis ==
    [][(RunEnds /\ ~cs.dry_run /\ groups = <<>> /\ faults' = 0) =>
          /\ \A i \in DOMAIN combined :
                (combined[i].path \in DOMAIN cs.fs0
                 /\ IsRelativeTo(combined[i].path, IncomingDir))
                   => \E q \in Under(fs', FinalDir) : fs'[q] = cs.fs0[combined[i].path]
          /\ Under(cs.fs0, IncomingDir) \subseteq DOMAIN fs']_vars

-----------------------------------------------------------------------------
(* Config: the directories the stages are constructed with *)

\* a stage object is constructed from the configuration
Construct(stage) ==
    /\ cs.pc = "idle"
    /\ ~stages[stage].made
    /\ stages' = [stages EXCEPT ![stage] = StagesOf(stages.storage)[stage]]
    /\ UNCHANGED <<fs, dirs, srcManifest, cpManifest, combined, groups, backupCfg, config,
                   analysis, combinedMeta, scanRes, combineErr, staged0, cs, copyRes,
                   consRes, faults, runs, pool>>

\* a configuration is loaded and no stage is constructed yet
InitConfig ==
    \* the infrastructure.storage sections: each key configured or left out
    /\ \E storage \in UNION {[K -> {<<"data">>, <<"srv">>, <<"srv", "work">>}] :
                                K \in SUBSET {"data_root", "consolidation_root"}} :
          stages = [storage |-> storage, copier |-> NoStage, scanner |-> NoStage,
                    detector |-> NoStage, consolidator |-> NoStage]
    /\ fs = <<>>
    /\ dirs = {}
    /\ srcManifest = [d \in Labels |-> Absent]
    /\ cpManifest = [d \in Labels |-> <<>>]
    /\ combined = <<>>
    /\ groups = <<>>
    /\ backupCfg \in BOOLEAN
    /\ config \in QualityConfigs
    /\ analysis = NoAnalysis
    /\ staged0 = {}
    /\ cs = Idle
    /\ copyRes = [valid |-> FALSE, dry_run |-> FALSE, res |-> NoDrive]
    /\ consRes = NoReport
    /\ faults = 0
    /\ runs = 0
    /\ combinedMeta = NoMeta
    /\ scanRes = NoScan
    /\ combineErr = FALSE
    /\ pool = NoPool

NextConfig == \E stage \in {"copier", "scanner", "detector", "consolidator"} : Construct(stage)

SpecConfig == InitConfig /\ [][NextConfig]_vars

\* C36: for every configuration the stages address the same persisted state:
\* the staging root of the Copier is the incoming_dir of the Consolidator,
\* and the directory the MediaScanner writes the combined manifest to is the
\* one the DuplicateDetector and the Consolidator read it from
C36_StagesShareState ==
    /\ (stages.copier.made /\ stages.consolidator.made)
          => stages.copier.incoming_dir = stages.consolidator.incoming_dir
    /\ (stages.scanner.made /\ stages.detector.made)
          => stages.scanner.manifests_dir = stages.detector.manifests_dir
    /\ (stages.scanner.made /\ stages.consolidator.made)
          => stages.scanner.manifests_dir = stages.consolidator.manifests_dir

-----------------------------------------------------------------------------
(* utils.safe_copy_file: what a successful verification means *)

\* C37: safe_copy_file(source, destination, verify=True) returns True only if
\* after the copy both digests were computed (non-empty) and are equal; a
\* digest that could not be computed never counts as a verification
C37_VerifiedMeansHashed ==
    [][(cs'.last # cs.last /\ cs'.last # NoCopy /\ cs'.last.ok)
          => cs'.last.verified]_vars


-----------------------------------------------------------------------------
(* PhotoConsolidator and the best_file of analyze_duplicates *)

\* C38: the file analyze_duplicates chose as best_file (the KEEP entry) of a
\* duplicate group is never deleted from staging by a step of the
\* Consolidator, also when no I/O fault occurs
C38_BestFileStaysStaged ==
    [][\A i \in DOMAIN analysis.groups :
          LET best_file == analysis.groups[i].best_file.path
          IN  (/\ faults' = 0
               /\ IsRelativeTo(best_file, IncomingDir)
               /\ best_file \in DOMAIN fs)
                 => best_file \in DOMAIN fs']_vars

====
